---------------------------- MODULE Spec2Model ----------------------------
(***************************************************************************)
(* Object graph of the CRS model of src/src/crs.cpp.                       *)
(*                                                                         *)
(* The heap holds CRS, Conversion and Transformation objects.  Shared      *)
(* pointers (std::shared_ptr / nn<>) are object ids, a null pointer is     *)
(* Null.  Object ids are never reused, so a weak pointer to a destroyed    *)
(* object is an id that is no longer in `alive`.  `roots` is the set of    *)
(* references held by the caller of the library (local variables of the    *)
(* client, plus the static singletons EPSG_4326 and EPSG_4978).            *)
(***************************************************************************)
EXTENDS Integers, Sequences, FiniteSets, TLC

\* ------------------------------------------------------------------------
\* Bounds of the model

\* number of objects ever constructed in a behaviour of each specification
\* (the three static singletons included)
MaxObjSingle == 5
MaxObjDerived == 8
MaxObjBound == 10
MaxObjBoundDerived == 11
MaxObjOwnership == 8
MaxObjWGS84 == 7
MaxObjOperations == 7
MaxObjCompound == 6
MaxObjStrip == 7
MaxObjExport == 6
MaxObjPROJ == 6
MaxObjDialect == 6
MaxObjEquivalence == 6
MaxObjCompoundPROJ == 5
MaxObjAxis == 5
MaxComponents == 3
MaxMeasures == 3
MaxEllipsoids == 2
MaxThreads == 2
MaxDepth == 2
MaxComponentsEx == 2
MaxDt == 1

Null == 0
MaxObj ==
    LET caps == {MaxObjSingle, MaxObjDerived, MaxObjBound, MaxObjBoundDerived,
                 MaxObjOwnership, MaxObjWGS84,
                 MaxObjOperations, MaxObjCompound, MaxObjStrip,
                 MaxObjExport, MaxObjPROJ, MaxObjDialect,
                 MaxObjEquivalence, MaxObjCompoundPROJ,
                 MaxObjAxis}
    IN  CHOOSE m \in caps : \A n \in caps : n <= m
Ids == 1..MaxObj

\* ids of the static singletons
EPSG_4326 == 1
EPSG_4978 == 2
EPSG_4267 == 3
Statics == {EPSG_4326, EPSG_4978, EPSG_4267}

NoDatum == "null"

\* datums and ensembles a client passes to the single-CRS factories
Datums == {"WGS84", "NAD27"}
\* "EnsGeod" holds GeodeticReferenceFrames, "EnsVert" VerticalReferenceFrames
Ensembles == {"EnsGeod", "EnsVert"}
\* the ensembles of GeodeticReferenceFrames: "EnsGeodOther" is a second one,
\* with other members
GeodeticEnsembles == {"EnsGeod", "EnsGeodOther"}

\* ------------------------------------------------------------------------
\* Coordinate systems (cs::EllipsoidalCS, cs::CartesianCS, cs::VerticalCS)

LatLong == [type |-> "ellipsoidal", axes |-> <<"lat", "lon">>]
LatLongHeight == [type |-> "ellipsoidal", axes |-> <<"lat", "lon", "h">>]
\* cs::CartesianCS::create(axis1, axis2) for the coordinate system of a
\* ProjectedCRS: the names and the directions of the axes and their unit
CartesianCS_create(name0, dir0, name1, dir1, unit) ==
    [type |-> "Cartesian", axes |-> <<name0, name1>>,
     dirs |-> <<dir0, dir1>>, unit |-> unit]

EastingNorthing ==
    [type |-> "Cartesian", axes |-> <<"E", "N">>,
     dirs |-> <<"east", "north">>, unit |-> "metre"]
EastingNorthingHeight ==
    [type |-> "Cartesian", axes |-> <<"E", "N", "h">>,
     dirs |-> <<"east", "north", "up">>, unit |-> "metre"]
Geocentric == [type |-> "Cartesian", axes |-> <<"X", "Y", "Z">>]
GravityRelatedHeight == [type |-> "vertical", axes |-> <<"H">>]
NoCS == [type |-> "none", axes |-> <<>>]
TemporalCS == [type |-> "temporal", axes |-> <<"t">>]
ParametricCS == [type |-> "parametric", axes |-> <<"p">>]

\* cs::EllipsoidalCS::create(props, axis1, axis2) / cs::CartesianCS::create
CSCreate2(type, axis1, axis2) == [type |-> type, axes |-> <<axis1, axis2>>]

\* ------------------------------------------------------------------------
\* Objects

VARIABLES
    heap,        \* heap[o]: the fields of object o
    alive,       \* objects constructed and not yet destroyed
    nextId,      \* next fresh object id
    roots,       \* the objects the client holds a reference to or names (the
                 \* static singletons it uses)
    last,        \* the last call made by the client and what it returned
    canonWrites, \* canonWrites[o]: number of setCanonicalBoundCRS calls on o
    cap,         \* bound on the object ids of the behaviour
    measures,    \* the common::Measure objects (Length, Angle, Scale) made
    ellipsoids,  \* the datum::Ellipsoid objects made
    thread,      \* pj_mutex.c, pthread build: thread[t].pc is where thread t
                 \* is in pj_acquire_lock(), thread[t].depth the number of
                 \* its returned pj_acquire_lock() calls not yet released
    pj_precreated_lock,   \* the thread that holds it, or NoThread
    pj_core_lock,         \* its owner, recursion count and number of inits
    pj_core_lock_created, \* the flag
    pj_lock,     \* pj_mutex.c, win32 build: pj_lock[l].created is whether
                 \* the pointer of lock l is not NULL (its mutex or critical
                 \* section exists), pj_lock[l].held the times it is entered
    pj_lock_call, \* the last call made on the win32 locks
    mComponents, \* defmodel.hpp: the ComponentEx of the evaluator
    evaluated    \* the last ComponentEx::evaluateAt call and its result

measureVars == <<measures>>
ellipsoidVars == <<ellipsoids>>
pthreadVars ==
    <<thread, pj_precreated_lock, pj_core_lock, pj_core_lock_created>>

win32Vars == <<pj_lock, pj_lock_call>>
defmodelVars == <<mComponents, evaluated>>
mutexVars == <<pthreadVars, win32Vars>>

\* the state of the library outside the CRS object graph
lib == <<measureVars, ellipsoidVars, mutexVars, defmodelVars>>

vars == <<heap, alive, nextId, roots, last, canonWrites, cap, lib>>

\* fields of an object that was never constructed, or was destroyed
Blank ==
    [kind |-> "none", name |-> "", datum |-> NoDatum, ensemble |-> NoDatum,
     cs |-> NoCS, base |-> Null, conv |-> Null, hub |-> Null,
     transf |-> Null, canonical |-> Null, components |-> <<>>,
     method |-> "", src |-> Null, tgt |-> Null, weak |-> FALSE,
     wkt2_2018_only |-> FALSE]

\* the kinds a dynamic_cast to GeographicCRS, GeodeticCRS and DerivedCRS
\* succeeds for (DerivedGeographicCRS derives from GeographicCRS and
\* DerivedCRS)
GeographicKinds == {"GeographicCRS", "DerivedGeographicCRS"}
GeodeticKinds == {"GeodeticCRS"} \cup GeographicKinds
DerivedKinds == {"ProjectedCRS", "DerivedGeographicCRS"}
SingleKinds == GeodeticKinds \cup {"VerticalCRS", "ProjectedCRS"}
\* the other single CRS, which only the exports handle
OtherSingleKinds == {"TemporalCRS", "EngineeringCRS", "ParametricCRS"}
TemplateKinds ==
    {"DerivedEngineeringCRS", "DerivedParametricCRS", "DerivedTemporalCRS"}
OtherDerivedKinds ==
    {"DerivedGeodeticCRS", "DerivedProjectedCRS", "DerivedVerticalCRS"}
        \cup TemplateKinds
CRSKinds ==
    SingleKinds \cup OtherSingleKinds \cup OtherDerivedKinds
        \cup {"BoundCRS", "CompoundCRS"}
OperationKinds == {"Conversion", "Transformation"}

IsCRS(h, o) == o # Null /\ h[o].kind \in CRSKinds

\* CoordinateOperation::sourceCRS() / targetCRS(): the strong pointer, or
\* the weak pointer locked (null once the CRS is destroyed)
SourceCRS(h, al, c) == IF h[c].src \in al THEN h[c].src ELSE Null
TargetCRS(h, al, c) == IF h[c].tgt \in al THEN h[c].tgt ELSE Null

\* strong (owning) pointers held by object o
StrongRefs(h, o) ==
    ({h[o].base, h[o].conv, h[o].hub, h[o].transf, h[o].canonical}
        \cup {h[o].components[i] : i \in DOMAIN h[o].components}
        \cup (IF h[o].weak THEN {} ELSE {h[o].src, h[o].tgt}))
    \ {Null}

\* std::shared_ptr reference counting: an object none of the client's
\* references and no live object's strong pointer refers to is destroyed,
\* which releases the pointers it held
RECURSIVE Release(_, _, _)
Release(h, al, rts) ==
    LET dead == {o \in al : o \notin rts /\ \A a \in al : o \notin StrongRefs(h, a)}
    IN  IF dead = {} THEN al ELSE Release(h, al \ dead, rts)

Wipe(h, al) == [o \in Ids |-> IF o \in al THEN h[o] ELSE Blank]

\* the formatter of a call that takes none
NoFormatter ==
    [convention |-> "", towgs84 |-> FALSE, hExt |-> "", vExt |-> "",
     out |-> <<>>]

\* the call record: the operation, the object it was called on, its second
\* object argument, the datum and ensemble passed, the object returned,
\* whether the call threw, whether the database context it was given is
\* one that fails, the formatter it was given as the call left it, and the
\* answer of a comparison
Call(op, self, arg, datum, ens, ret, threw) ==
    [op |-> op, self |-> self, arg |-> arg, datum |-> datum, ens |-> ens,
     ret |-> ret, threw |-> threw, dbFails |-> FALSE,
     formatter |-> NoFormatter, equivalent |-> FALSE]

NoCall == Call("none", Null, Null, "", "", Null, FALSE)

\* ------------------------------------------------------------------------
\* Static singletons

\* GeographicCRS::createEPSG_4326
Obj4326 ==
    [Blank EXCEPT !.kind = "GeographicCRS", !.name = "WGS 84",
                  !.datum = "WGS84", !.cs = LatLong]

\* GeodeticCRS::createEPSG_4978
Obj4978 ==
    [Blank EXCEPT !.kind = "GeodeticCRS", !.name = "WGS 84",
                  !.datum = "WGS84", !.cs = Geocentric]

\* GeographicCRS::createEPSG_4267
Obj4267 ==
    [Blank EXCEPT !.kind = "GeographicCRS", !.name = "NAD27",
                  !.datum = "NAD27", !.cs = LatLong]

\* ------------------------------------------------------------------------
\* Single CRS construction

\* SingleCRS::Private::Private: exactly one of datum, datumEnsemble
SingleCRSPrivateThrows(datum, ens) ==
    (IF datum # NoDatum THEN 1 ELSE 0) + (IF ens # NoDatum THEN 1 ELSE 0) # 1

\* checkEnsembleForGeodeticCRS: TRUE when it throws
CheckEnsembleForGeodeticCRSThrows(datum, ens) ==
    IF datum # NoDatum
    THEN ens # NoDatum
    ELSE IF ens # NoDatum
         THEN ens \notin GeodeticEnsembles
         ELSE TRUE

\* checkEnsembleForVerticalCRS: TRUE when it throws
CheckEnsembleForVerticalCRSThrows(datum, ens) ==
    IF datum # NoDatum
    THEN ens # NoDatum
    ELSE IF ens # NoDatum
         THEN ens # "EnsVert"
         ELSE TRUE

\* a faulty constructor check that rejects only the absence of both
GeographicCRSCtorThrowsOnlyIfNone(datum, ens) ==
    datum = NoDatum /\ ens = NoDatum

\* GeographicCRS::GeographicCRS: the virtual base SingleCRS is built first,
\* then GeodeticCRS with checkEnsembleForGeodeticCRS
GeographicCRSCtorThrows(datum, ens) ==
    SingleCRSPrivateThrows(datum, ens)
        \/ CheckEnsembleForGeodeticCRSThrows(datum, ens)

\* GeodeticCRS::GeodeticCRS: checkEnsembleForGeodeticCRS is evaluated as an
\* argument of SingleCRS
GeodeticCRSCtorThrows(datum, ens) ==
    CheckEnsembleForGeodeticCRSThrows(datum, ens)
        \/ SingleCRSPrivateThrows(datum, ens)

\* VerticalCRS::VerticalCRS
VerticalCRSCtorThrows(datum, ens) ==
    CheckEnsembleForVerticalCRSThrows(datum, ens)
        \/ SingleCRSPrivateThrows(datum, ens)

\* a factory call that throws: no object is made, nothing changes
Throw(op, self, arg, datum, ens) ==
    /\ last' = Call(op, self, arg, datum, ens, Null, TRUE)
    /\ UNCHANGED <<heap, alive, nextId, roots, canonWrites, cap, lib>>

\* a factory call that returns the fresh object `o` with fields `obj`
\* (nn_make_shared, assignSelf, setProperties)
Make(op, self, arg, datum, ens, obj) ==
    /\ nextId <= cap
    /\ heap' = [heap EXCEPT ![nextId] = obj]
    /\ alive' = alive \cup {nextId}
    /\ roots' = roots \cup {nextId}
    /\ nextId' = nextId + 1
    /\ last' = Call(op, self, arg, datum, ens, nextId, FALSE)
    /\ UNCHANGED <<canonWrites, cap, lib>>

\* GeographicCRS::create(properties, datum, datumEnsemble, cs)
GeographicCRS_create(name, datum, ens, cs) ==
    IF GeographicCRSCtorThrows(datum, ens)
    THEN Throw("GeographicCRS::create", Null, Null, datum, ens)
    ELSE Make("GeographicCRS::create", Null, Null, datum, ens,
              [Blank EXCEPT !.kind = "GeographicCRS", !.name = name,
                            !.datum = datum, !.ensemble = ens, !.cs = cs])

\* GeodeticCRS::create(properties, datum, datumEnsemble, CartesianCS)
GeodeticCRS_create(name, datum, ens, cs) ==
    IF GeodeticCRSCtorThrows(datum, ens)
    THEN Throw("GeodeticCRS::create", Null, Null, datum, ens)
    ELSE Make("GeodeticCRS::create", Null, Null, datum, ens,
              [Blank EXCEPT !.kind = "GeodeticCRS", !.name = name,
                            !.datum = datum, !.ensemble = ens, !.cs = cs])

\* VerticalCRS::create(properties, datum, datumEnsemble, cs)
VerticalCRS_create(name, datum, ens, cs) ==
    IF VerticalCRSCtorThrows(datum, ens)
    THEN Throw("VerticalCRS::create", Null, Null, datum, ens)
    ELSE Make("VerticalCRS::create", Null, Null, datum, ens,
              [Blank EXCEPT !.kind = "VerticalCRS", !.name = name,
                            !.datum = datum, !.ensemble = ens, !.cs = cs])

\* TemporalCRS::create, EngineeringCRS::create and ParametricCRS::create
\* (properties, datumIn, csIn): the datum is never null
TemporalCRS_create(name, datum, cs) ==
    Make("TemporalCRS::create", Null, Null, datum, NoDatum,
         [Blank EXCEPT !.kind = "TemporalCRS", !.name = name,
                       !.datum = datum, !.cs = cs])

EngineeringCRS_create(name, datum, cs) ==
    Make("EngineeringCRS::create", Null, Null, datum, NoDatum,
         [Blank EXCEPT !.kind = "EngineeringCRS", !.name = name,
                       !.datum = datum, !.cs = cs])

ParametricCRS_create(name, datum, cs) ==
    Make("ParametricCRS::create", Null, Null, datum, NoDatum,
         [Blank EXCEPT !.kind = "ParametricCRS", !.name = name,
                       !.datum = datum, !.cs = cs])

\* CompoundCRS::create(properties, components), the properties carrying a
\* name: the component list is stored as given, nothing is compared
CompoundCRS_create(name, components) ==
    /\ \A i \in DOMAIN components : IsCRS(heap, components[i])
    /\ Make("CompoundCRS::create", Null, Null, "", "",
            [Blank EXCEPT !.kind = "CompoundCRS", !.name = name,
                          !.components = components])

\* ------------------------------------------------------------------------
\* Conversions and derived CRS

Methods == {"utm"}

\* operation::Conversion::createUTM and the like: a Conversion that is not
\* attached to any CRS yet
NewConversionObj(method) ==
    [Blank EXCEPT !.kind = "Conversion", !.method = method, !.weak = TRUE]

Conversion_create(method) ==
    Make("Conversion::create", Null, Null, "", "", NewConversionObj(method))

\* CoordinateOperation::setWeakSourceTargetCRS
SetWeakSourceTargetCRS(h, c, source, target) ==
    [h EXCEPT ![c].src = source, ![c].tgt = target, ![c].weak = TRUE]

\* a faulty setDerivingConversionCRS that makes the conversion own its
\* source and target
SetDerivingConversionCRSStrong(h, p) ==
    [h EXCEPT ![h[p].conv].src = h[p].base, ![h[p].conv].tgt = p,
              ![h[p].conv].weak = FALSE]

\* DerivedCRS::setDerivingConversionCRS on the derived CRS p
SetDerivingConversionCRS(h, p) ==
    SetWeakSourceTargetCRS(h, h[p].conv, h[p].base, p)

\* Conversion::shallowClone: object c becomes a copy of conversion conv
Conversion_shallowClone(h, conv, c) ==
    [h EXCEPT ![c] = h[conv]]

\* DerivedCRS::Private::Private(baseCRSIn, derivingConversionIn): the
\* conversion pointer stored by a derived CRS built from conversion conv
DerivedCRSPrivate_conv(conv) == conv

\* ProjectedCRS::ProjectedCRS(baseCRSIn, derivingConversionIn, csIn)
ProjectedCRSObj(h, name, base, conv, cs) ==
    [Blank EXCEPT !.kind = "ProjectedCRS", !.name = name,
                  !.datum = h[base].datum, !.ensemble = h[base].ensemble,
                  !.cs = cs, !.base = base,
                  !.conv = DerivedCRSPrivate_conv(conv)]

\* body of ProjectedCRS::create: object p is the new ProjectedCRS
ProjectedCRS_createBody(h, p, name, base, conv, cs) ==
    SetDerivingConversionCRS(
        [h EXCEPT ![p] = ProjectedCRSObj(h, name, base, conv, cs)], p)

\* ProjectedCRS::create(properties, baseCRSIn, derivingConversionIn, csIn)
ProjectedCRS_create(name, base, conv, cs) ==
    /\ nextId <= cap
    /\ heap[base].kind \in GeodeticKinds
    /\ heap[conv].kind = "Conversion"
    /\ heap' = ProjectedCRS_createBody(heap, nextId, name, base, conv, cs)
    /\ alive' = alive \cup {nextId}
    /\ roots' = roots \cup {nextId}
    /\ nextId' = nextId + 1
    /\ last' = Call("ProjectedCRS::create", base, conv, "", "", nextId, FALSE)
    /\ UNCHANGED <<canonWrites, cap, lib>>

\* DerivedGeographicCRS::create(properties, baseCRSIn, derivingConversionIn,
\* csIn): datum and ensemble are those of the base CRS
DerivedGeographicCRS_create(name, base, conv, cs) ==
    /\ nextId <= cap
    /\ heap[base].kind \in GeodeticKinds
    /\ heap[conv].kind = "Conversion"
    /\ heap' = SetDerivingConversionCRS(
           [heap EXCEPT ![nextId] =
               [ProjectedCRSObj(heap, name, base, conv, cs)
                   EXCEPT !.kind = "DerivedGeographicCRS"]], nextId)
    /\ alive' = alive \cup {nextId}
    /\ roots' = roots \cup {nextId}
    /\ nextId' = nextId + 1
    /\ last' = Call("DerivedGeographicCRS::create", base, conv, "", "",
                    nextId, FALSE)
    /\ UNCHANGED <<canonWrites, cap, lib>>

\* the create of the other derived CRS (DerivedGeodeticCRS::create,
\* DerivedProjectedCRS::create, DerivedVerticalCRS::create and
\* DerivedCRSTemplate::create): as ProjectedCRS::create, for a base CRS of
\* the class the signature asks for
DerivedCRS_create(op, kind, baseKinds, name, base, conv, cs, only2018) ==
    /\ nextId <= cap
    /\ heap[base].kind \in baseKinds
    /\ heap[conv].kind = "Conversion"
    /\ heap' = SetDerivingConversionCRS(
           [heap EXCEPT ![nextId] =
               [ProjectedCRSObj(heap, name, base, conv, cs)
                   EXCEPT !.kind = kind, !.wkt2_2018_only = only2018]], nextId)
    /\ alive' = alive \cup {nextId}
    /\ roots' = roots \cup {nextId}
    /\ nextId' = nextId + 1
    /\ last' = Call(op, base, conv, "", "", nextId, FALSE)
    /\ UNCHANGED <<canonWrites, cap, lib>>

DerivedGeodeticCRS_create(name, base, conv, cs) ==
    DerivedCRS_create("DerivedGeodeticCRS::create", "DerivedGeodeticCRS",
                      GeodeticKinds, name, base, conv, cs, FALSE)

DerivedProjectedCRS_create(name, base, conv, cs) ==
    DerivedCRS_create("DerivedProjectedCRS::create", "DerivedProjectedCRS",
                      {"ProjectedCRS"}, name, base, conv, cs, FALSE)

DerivedVerticalCRS_create(name, base, conv, cs) ==
    DerivedCRS_create("DerivedVerticalCRS::create", "DerivedVerticalCRS",
                      {"VerticalCRS"}, name, base, conv, cs, FALSE)

\* the base class of each instantiation of DerivedCRSTemplate
TemplateBaseKind(kind) ==
    IF kind = "DerivedEngineeringCRS" THEN "EngineeringCRS"
    ELSE IF kind = "DerivedParametricCRS" THEN "ParametricCRS"
    ELSE "TemporalCRS"

\* DerivedCRSTemplate<Traits>::create, with the wkt2_2018_only of Traits
DerivedCRSTemplate_create(kind, name, base, conv, cs, wkt2_2018_only) ==
    DerivedCRS_create("DerivedCRSTemplate::create", kind,
                      {TemplateBaseKind(kind)}, name, base, conv, cs,
                      wkt2_2018_only)

\* a faulty copy constructor that shares the conversion of the original
ProjectedCRS_copyAliasing(h, p, n, c) == [h EXCEPT ![n] = h[p]]

\* ProjectedCRS::ProjectedCRS(const ProjectedCRS &other), with the copy
\* constructors of CRS, SingleCRS and DerivedCRS::Private: object n becomes
\* a copy of p whose conversion is object c, a shallow clone of p's
ProjectedCRS_copy(h, p, n, c) ==
    [Conversion_shallowClone(h, h[p].conv, c) EXCEPT ![n] = [h[p] EXCEPT !.conv = c]]

\* body of ProjectedCRS::shallowClone
ProjectedCRS_shallowCloneBody(h, p, n, c) ==
    SetDerivingConversionCRS(ProjectedCRS_copy(h, p, n, c), n)

\* a faulty copy constructor that does not copy the name
CRS_copyWithoutName(h, x, n) == [h EXCEPT ![n] = [h[x] EXCEPT !.name = ""]]

\* copy constructors of GeodeticCRS, GeographicCRS, VerticalCRS, BoundCRS:
\* every member is copied, the canonical BoundCRS pointer included
CRS_copy(h, x, n) == [h EXCEPT ![n] = h[x]]

\* CRS::shallowClone (virtual): the clone is returned to the caller
ShallowClone(x) ==
    /\ IsCRS(heap, x)
    /\ IF heap[x].kind \in DerivedKinds
       THEN /\ nextId + 1 <= cap
            /\ heap' = ProjectedCRS_shallowCloneBody(heap, x, nextId, nextId + 1)
            /\ alive' = alive \cup {nextId, nextId + 1}
            /\ nextId' = nextId + 2
       ELSE /\ nextId <= cap
            /\ heap' = CRS_copy(heap, x, nextId)
            /\ alive' = alive \cup {nextId}
            /\ nextId' = nextId + 1
    /\ roots' = roots \cup {nextId}
    /\ last' = Call("shallowClone", x, Null, "", "", nextId, FALSE)
    /\ UNCHANGED <<canonWrites, cap, lib>>

\* DerivedCRS::derivingConversion: a shallow clone of the internal conversion
DerivingConversion(p) ==
    /\ heap[p].kind \in DerivedKinds
    /\ nextId <= cap
    /\ heap' = Conversion_shallowClone(heap, heap[p].conv, nextId)
    /\ alive' = alive \cup {nextId}
    /\ roots' = roots \cup {nextId}
    /\ nextId' = nextId + 1
    /\ last' = Call("derivingConversion", p, Null, "", "", nextId, FALSE)
    /\ UNCHANGED <<canonWrites, cap, lib>>

\* CRS::stripVerticalComponent
StripVerticalComponent(x) ==
    /\ IsCRS(heap, x)
    /\ IF heap[x].kind \in GeographicKinds /\ Len(heap[x].cs.axes) = 3
       THEN \* GeographicCRS::create(name, datum, datumEnsemble, cs)
            /\ nextId <= cap
            /\ heap' = [heap EXCEPT ![nextId] =
                   [Blank EXCEPT !.kind = "GeographicCRS",
                                 !.name = heap[x].name,
                                 !.datum = heap[x].datum,
                                 !.ensemble = heap[x].ensemble,
                                 !.cs = CSCreate2("ellipsoidal",
                                                  heap[x].cs.axes[1],
                                                  heap[x].cs.axes[2])]]
            /\ alive' = alive \cup {nextId}
            /\ roots' = roots \cup {nextId}
            /\ nextId' = nextId + 1
            /\ last' = Call("stripVerticalComponent", x, Null, "", "", nextId, FALSE)
       ELSE IF heap[x].kind = "ProjectedCRS" /\ Len(heap[x].cs.axes) = 3
       THEN \* ProjectedCRS::create(name, baseCRS(), derivingConversion(), cs):
            \* nextId is the clone of the conversion, nextId + 1 the new CRS;
            \* the clone is owned by the new CRS alone
            /\ nextId + 1 <= cap
            /\ heap' = ProjectedCRS_createBody(
                   Conversion_shallowClone(heap, heap[x].conv, nextId),
                   nextId + 1, heap[x].name, heap[x].base, nextId,
                   CSCreate2("Cartesian", heap[x].cs.axes[1], heap[x].cs.axes[2]))
            /\ alive' = alive \cup {nextId, nextId + 1}
            /\ roots' = roots \cup {nextId + 1}
            /\ nextId' = nextId + 2
            /\ last' = Call("stripVerticalComponent", x, Null, "", "", nextId + 1, FALSE)
       ELSE /\ last' = Call("stripVerticalComponent", x, Null, "", "", x, FALSE)
            /\ UNCHANGED <<heap, alive, nextId, roots>>
    /\ UNCHANGED <<canonWrites, cap, lib>>

\* ------------------------------------------------------------------------
\* Extraction and equivalence

\* CRS::extractGeodeticCRSRaw
RECURSIVE ExtractGeodeticCRSRaw(_, _)
ExtractGeodeticCRSRaw(h, x) ==
    IF h[x].kind \in GeodeticKinds THEN x
    ELSE IF h[x].kind = "ProjectedCRS" THEN ExtractGeodeticCRSRaw(h, h[x].base)
    ELSE IF h[x].kind = "CompoundCRS"
    THEN LET found == {i \in DOMAIN h[x].components :
                          ExtractGeodeticCRSRaw(h, h[x].components[i]) # Null}
         IN  IF found = {} THEN Null
             ELSE ExtractGeodeticCRSRaw(h,
                      h[x].components[CHOOSE i \in found : \A j \in found : i <= j])
    ELSE IF h[x].kind = "BoundCRS" THEN ExtractGeodeticCRSRaw(h, h[x].base)
    ELSE Null

\* CRS::extractGeographicCRS: the raw result cast to GeographicCRS
ExtractGeographicCRS(h, x) ==
    LET raw == ExtractGeodeticCRSRaw(h, x)
    IN  IF raw # Null /\ h[raw].kind \in GeographicKinds THEN raw ELSE Null

\* CRS::extractGeographicCRS called by the client on x
ExtractGeographicCRSCall(x) ==
    /\ IsCRS(heap, x)
    /\ roots' = roots \cup ({ExtractGeographicCRS(heap, x)} \ {Null})
    /\ last' = Call("extractGeographicCRS", x, Null, "", "",
                    ExtractGeographicCRS(heap, x), FALSE)
    /\ UNCHANGED <<heap, alive, nextId, canonWrites, cap, lib>>

\* ObjectUsage::isEquivalentTo: the name counts under STRICT only
ObjectUsage_isEquivalentTo(h, a, b, criterion) ==
    criterion = "STRICT" => h[a].name = h[b].name

\* Datum::isEquivalentTo
Datum_isEquivalentTo(d1, d2) == d1 = d2

\* CoordinateSystem::isEquivalentTo
CS_isEquivalentTo(cs1, cs2) == cs1 = cs2

\* CoordinateOperation::isEquivalentTo
Operation_isEquivalentTo(h, a, b, criterion) ==
    /\ h[a].kind = h[b].kind
    /\ h[a].method = h[b].method
    /\ ObjectUsage_isEquivalentTo(h, a, b, criterion)

\* SingleCRS::_isEquivalentTo (the datum ensemble is not compared)
SingleCRS_isEquivalentTo(h, a, b, criterion) ==
    /\ h[b].kind \in SingleKinds
    /\ ObjectUsage_isEquivalentTo(h, a, b, criterion)
    /\ (h[a].datum # NoDatum) = (h[b].datum # NoDatum)
    /\ (h[a].datum # NoDatum => Datum_isEquivalentTo(h[a].datum, h[b].datum))
    /\ CS_isEquivalentTo(h[a].cs, h[b].cs)

\* the virtual isEquivalentTo of GeodeticCRS, VerticalCRS, ProjectedCRS
\* (through DerivedCRS) and BoundCRS
RECURSIVE IsEquivalentTo(_, _, _, _)
IsEquivalentTo(h, a, b, criterion) ==
    IF h[a].kind = "DerivedGeographicCRS"
    THEN /\ h[b].kind = "DerivedGeographicCRS"
         /\ SingleCRS_isEquivalentTo(h, a, b, criterion)
         /\ IsEquivalentTo(h, h[a].base, h[b].base, criterion)
         /\ Operation_isEquivalentTo(h, h[a].conv, h[b].conv, criterion)
    ELSE IF h[a].kind \in GeodeticKinds
    THEN h[b].kind \in GeodeticKinds /\ SingleCRS_isEquivalentTo(h, a, b, criterion)
    ELSE IF h[a].kind = "VerticalCRS"
    THEN h[b].kind = "VerticalCRS" /\ SingleCRS_isEquivalentTo(h, a, b, criterion)
    ELSE IF h[a].kind = "ProjectedCRS"
    THEN /\ h[b].kind = "ProjectedCRS"
         /\ SingleCRS_isEquivalentTo(h, a, b, criterion)
         /\ IsEquivalentTo(h, h[a].base, h[b].base, criterion)
         /\ Operation_isEquivalentTo(h, h[a].conv, h[b].conv, criterion)
    ELSE IF h[a].kind = "BoundCRS"
    THEN /\ h[b].kind = "BoundCRS"
         /\ ObjectUsage_isEquivalentTo(h, a, b, criterion)
         /\ IsEquivalentTo(h, h[a].base, h[b].base, criterion)
         /\ IsEquivalentTo(h, h[a].hub, h[b].hub, criterion)
         /\ Operation_isEquivalentTo(h, h[a].transf, h[b].transf, criterion)
    ELSE IF h[a].kind = "CompoundCRS"
    THEN /\ h[b].kind = "CompoundCRS"
         /\ ObjectUsage_isEquivalentTo(h, a, b, criterion)
         /\ Len(h[a].components) = Len(h[b].components)
         /\ \A i \in DOMAIN h[a].components :
                IsEquivalentTo(h, h[a].components[i], h[b].components[i],
                               criterion)
    ELSE FALSE

\* the client comparing two CRS: a->isEquivalentTo(b, criterion)
IsEquivalentToCall(a, b, criterion) ==
    /\ IsCRS(heap, a)
    /\ IsCRS(heap, b)
    /\ last' = [Call("isEquivalentTo", a, b, "", "", Null, FALSE)
                   EXCEPT !.equivalent = IsEquivalentTo(heap, a, b, criterion)]
    /\ UNCHANGED <<heap, alive, nextId, roots, canonWrites, cap, lib>>

\* ------------------------------------------------------------------------
\* BoundCRS

TransformationMethods == {"helmert", "ntv2", "geoid", "other"}

\* operation::Transformation: holds its source and target CRS strongly
TransformationObj(name, method, source, target) ==
    [Blank EXCEPT !.kind = "Transformation", !.name = name, !.method = method,
                  !.src = source, !.tgt = target, !.weak = FALSE]

\* Transformation::create(properties, sourceCRS, targetCRS, ...)
Transformation_create(method, source, target) ==
    /\ IsCRS(heap, source)
    /\ IsCRS(heap, target)
    /\ Make("Transformation::create", source, target, "", "",
            TransformationObj("", method, source, target))

\* body of BoundCRS::create: object b is the new BoundCRS
BoundCRS_createBody(h, b, base, hub, transf) ==
    [h EXCEPT ![b] =
        [Blank EXCEPT !.kind = "BoundCRS",
                      !.name = IF h[base].name # "" THEN h[base].name ELSE "",
                      !.base = base, !.hub = hub, !.transf = transf]]

\* BoundCRS::create(baseCRSIn, hubCRSIn, transformationIn)
BoundCRS_create(base, hub, transf) ==
    /\ IsCRS(heap, base)
    /\ IsCRS(heap, hub)
    /\ heap[transf].kind = "Transformation"
    /\ nextId <= cap
    /\ heap' = BoundCRS_createBody(heap, nextId, base, hub, transf)
    /\ alive' = alive \cup {nextId}
    /\ roots' = roots \cup {nextId}
    /\ nextId' = nextId + 1
    /\ last' = Call("BoundCRS::create", base, hub, "", "", nextId, FALSE)
    /\ UNCHANGED <<canonWrites, cap, lib>>

\* BoundCRS::createFromTOWGS84(baseCRSIn, TOWGS84Parameters), with
\* Transformation::createTOWGS84, whose source is the geodetic CRS of the
\* base CRS and which throws when there is none
BoundCRS_createFromTOWGS84(base) ==
    /\ IsCRS(heap, base)
    /\ IF ExtractGeodeticCRSRaw(heap, base) = Null
       THEN Throw("BoundCRS::createFromTOWGS84", base, Null, "", "")
       ELSE /\ nextId + 1 <= cap
            /\ heap' = BoundCRS_createBody(
                   [heap EXCEPT ![nextId] =
                       TransformationObj("", "helmert",
                           ExtractGeodeticCRSRaw(heap, base), EPSG_4326)],
                   nextId + 1, base, EPSG_4326, nextId)
            /\ alive' = alive \cup {nextId, nextId + 1}
            /\ roots' = roots \cup {nextId + 1}
            /\ nextId' = nextId + 2
            /\ last' = Call("BoundCRS::createFromTOWGS84", base, Null, "", "",
                            nextId + 1, FALSE)
            /\ UNCHANGED <<canonWrites, cap, lib>>

\* BoundCRS::createFromNadgrids(baseCRSIn, filename), with
\* Transformation::createNTv2(properties, baseCRSIn, EPSG_4326, filename)
BoundCRS_createFromNadgrids(base) ==
    /\ IsCRS(heap, base)
    /\ nextId + 1 <= cap
    /\ heap' = BoundCRS_createBody(
           [heap EXCEPT ![nextId] =
               TransformationObj("", "ntv2", base, EPSG_4326)],
           nextId + 1, base, EPSG_4326, nextId)
    /\ alive' = alive \cup {nextId, nextId + 1}
    /\ roots' = roots \cup {nextId + 1}
    /\ nextId' = nextId + 2
    /\ last' = Call("BoundCRS::createFromNadgrids", base, Null, "", "",
                    nextId + 1, FALSE)
    /\ UNCHANGED <<canonWrites, cap, lib>>

\* CRS::setCanonicalBoundCRS on object x
SetCanonicalBoundCRS(h, x, boundCRS) == [h EXCEPT ![x].canonical = boundCRS]

\* a faulty baseCRSWithCanonicalBoundCRS that installs the pointer on the
\* base CRS itself
CanonicalBoundCRSHolderIsBase(h, b, baseCRSClone) == h[b].base

\* the object baseCRSWithCanonicalBoundCRS calls setCanonicalBoundCRS on:
\* the shallow clone of the base CRS
CanonicalBoundCRSHolder(h, b, baseCRSClone) == baseCRSClone

\* BoundCRS::baseCRSWithCanonicalBoundCRS on the BoundCRS b: nextId is the
\* shallow clone of the base CRS, the next object (after the clone of the
\* conversion of a ProjectedCRS) the shallow clone of b
BaseCRSWithCanonicalBoundCRS(b) ==
    /\ heap[b].kind = "BoundCRS"
    /\ LET base == heap[b].base
           extra == IF heap[base].kind \in DerivedKinds THEN 1 ELSE 0
           bclone == nextId + 1 + extra
           h1 == IF heap[base].kind \in DerivedKinds
                 THEN ProjectedCRS_shallowCloneBody(heap, base, nextId, nextId + 1)
                 ELSE CRS_copy(heap, base, nextId)
           h2 == CRS_copy(h1, b, bclone)
           holder == CanonicalBoundCRSHolder(heap, b, nextId)
       IN  /\ bclone <= cap
           /\ heap' = SetCanonicalBoundCRS(h2, holder, bclone)
           /\ canonWrites' = [canonWrites EXCEPT ![holder] = @ + 1]
           /\ alive' = alive \cup (nextId..bclone)
           /\ roots' = roots \cup {nextId}
           /\ nextId' = bclone + 1
           /\ last' = Call("baseCRSWithCanonicalBoundCRS", b, Null, "", "",
                           nextId, FALSE)
    /\ UNCHANGED <<cap, lib>>

\* ------------------------------------------------------------------------
\* createBoundCRSToWGS84IfPossible

\* a coordinate operation returned by createOperations: a Transformation
\* (for which getTOWGS84Parameters succeeds or throws, and which is or is
\* not a longitude rotation), a Conversion, or a ConcatenatedOperation
SubOp(name, type, towgs84, rot) ==
    [name |-> name, type |-> type, towgs84 |-> towgs84, rot |-> rot]
Op(name, type, towgs84, rot, sub) ==
    [name |-> name, type |-> type, towgs84 |-> towgs84, rot |-> rot, sub |-> sub]

Helmert(name) == Op(name, "Transformation", TRUE, FALSE, <<>>)
Grid(name) == Op(name, "Transformation", FALSE, FALSE, <<>>)
Concat(name, sub) == Op(name, "ConcatenatedOperation", FALSE, FALSE, sub)
Rotation == SubOp("rot", "Transformation", FALSE, TRUE)
SubConversion == SubOp("conv", "Conversion", FALSE, FALSE)
SubHelmert(name) == SubOp(name, "Transformation", TRUE, FALSE)
SubGrid(name) == SubOp(name, "Transformation", FALSE, FALSE)

\* what the database makes createOperations yield: an exception, or a list
DbChoices ==
    { [throws |-> TRUE, ops |-> <<>>],
      [throws |-> FALSE, ops |-> <<>>],
      [throws |-> FALSE, ops |-> <<Grid("g1"), Helmert("h2"), Helmert("h3")>>],
      [throws |-> FALSE,
       ops |-> <<Concat("c1", <<SubConversion, SubHelmert("s1")>>),
                 Concat("c2", <<Rotation, SubHelmert("s2")>>)>>],
      [throws |-> FALSE,
       ops |-> <<Concat("c1", <<Rotation, SubGrid("s1")>>),
                 Concat("c2", <<Rotation, SubHelmert("s2"), SubHelmert("s3")>>),
                 Op("k", "Conversion", FALSE, FALSE, <<>>)>>] }

\* a faulty loop that gives up at the first operation it cannot use
ScanOperationsNoSkip(ops, i, selfIsDerived) ==
    IF i > Len(ops) THEN ""
    ELSE IF ops[i].type = "Transformation" /\ ops[i].towgs84
    THEN ops[i].name
    ELSE ""

\* the loop over the operations, from index i on: the name of the
\* transformation the BoundCRS is built with, or "" when the loop ends
RECURSIVE ScanOperations(_, _, _)
ScanOperations(ops, i, selfIsDerived) ==
    IF i > Len(ops) THEN ""
    ELSE LET op == ops[i] IN
         IF op.type = "Transformation"
         THEN IF op.towgs84 THEN op.name
              ELSE ScanOperations(ops, i + 1, selfIsDerived)
         ELSE IF /\ op.type = "ConcatenatedOperation"
                 /\ Len(op.sub) = 2
                 /\ \/ op.sub[1].type = "Transformation" /\ op.sub[1].rot
                    \/ selfIsDerived /\ op.sub[1].type = "Conversion"
                 /\ op.sub[2].type = "Transformation"
         THEN IF op.sub[2].towgs84 THEN op.sub[2].name
              ELSE ScanOperations(ops, i + 1, selfIsDerived)
         ELSE ScanOperations(ops, i + 1, selfIsDerived)

\* a faulty start that looks at the canonical BoundCRS only
StartingBoundCRSCanonicalOnly(h, x) == h[x].canonical

\* the BoundCRS the method starts from: self when it is a BoundCRS, else
\* its canonical BoundCRS
StartingBoundCRS(h, x) ==
    IF h[x].kind = "BoundCRS" THEN x ELSE h[x].canonical

\* a faulty hub test that accepts any hub
HubIsWGS84AnyHub(h, boundCRS) == boundCRS # Null

\* the hub test on the starting BoundCRS
HubIsWGS84(h, boundCRS) ==
    boundCRS # Null /\ IsEquivalentTo(h, h[boundCRS].hub, EPSG_4326, "EQUIVALENT")

\* CRS::createBoundCRSToWGS84IfPossible on x, the database answering d:
\* [ret |-> an existing object] or [ret |-> Null, hub, source, transf] when a
\* new BoundCRS over x is built
ToWGS84Outcome(h, x, d) ==
    LET boundCRS == StartingBoundCRS(h, x)
        geodCRS == IF h[x].kind \in GeodeticKinds THEN x ELSE Null
        geogCRS == ExtractGeographicCRS(h, x)
        Existing(o) == [ret |-> o, hub |-> Null, source |-> Null, transf |-> ""]
    IN  IF HubIsWGS84(h, boundCRS) THEN Existing(boundCRS)
        ELSE IF ~(geodCRS # Null /\ geogCRS = Null)
                /\ (geogCRS = Null
                       \/ IsEquivalentTo(h, geogCRS, EPSG_4326, "EQUIVALENT"))
        THEN Existing(x)
        ELSE LET hubCRS == IF geodCRS # Null /\ geogCRS = Null
                           THEN EPSG_4978 ELSE EPSG_4326
                 source == IF geodCRS # Null /\ geogCRS = Null
                           THEN geodCRS ELSE geogCRS
                 transf == IF d.throws THEN ""
                           ELSE ScanOperations(d.ops, 1,
                                               h[x].kind \in DerivedKinds)
             IN  IF transf = "" THEN Existing(x)
                 ELSE [ret |-> Null, hub |-> hubCRS, source |-> source,
                       transf |-> transf]

\* the object the method returns, n being the next fresh object id: an
\* existing object, or the new BoundCRS n + 1 over the Transformation n
ToWGS84Ret(out, n) == IF out.ret # Null THEN out.ret ELSE n + 1

\* the objects after the call on x
ToWGS84Heap(h, x, out, n) ==
    IF out.ret # Null THEN h
    ELSE BoundCRS_createBody(
             [h EXCEPT ![n] = TransformationObj(out.transf, "helmert",
                                                out.source, out.hub)],
             n + 1, x, out.hub, n)

\* a faulty method without the catch clause: an exception raised by the
\* database leaves the method
QueryExceptionEscapesUncaught(h, x, d) == d.throws

\* whether an exception raised in the try block, by AuthorityFactory::create
\* or createOperations, leaves the method: catch (const std::exception &)
\* swallows it
QueryExceptionEscapes(h, x, d) == FALSE

\* CRS::createBoundCRSToWGS84IfPossible(dbContext) called on x
CreateBoundCRSToWGS84IfPossible(x, dbContext) ==
    /\ IsCRS(heap, x)
    /\ LET out == ToWGS84Outcome(heap, x, dbContext)
           ret == ToWGS84Ret(out, nextId)
       IN  /\ last' = [Call("createBoundCRSToWGS84IfPossible", x, Null,
                            "", "", ret,
                            QueryExceptionEscapes(heap, x, dbContext))
                         EXCEPT !.dbFails = dbContext.throws]
           /\ roots' = roots \cup {ret}
           /\ IF out.ret # Null
              THEN UNCHANGED <<heap, alive, nextId>>
              ELSE /\ nextId + 1 <= cap
                   /\ heap' = ToWGS84Heap(heap, x, out, nextId)
                   /\ alive' = alive \cup {nextId, nextId + 1}
                   /\ nextId' = nextId + 2
    /\ UNCHANGED <<canonWrites, cap, lib>>

\* ------------------------------------------------------------------------
\* WKT export

WKTConventions ==
    {"WKT2_2015", "WKT2_2015_SIMPLIFIED", "WKT2_2018", "WKT2_2018_SIMPLIFIED",
     "WKT1_GDAL", "WKT1_ESRI"}

\* io::WKTFormatter::create(convention): no TOWGS84 parameters, no datum
\* extension, nothing written yet
WKTFormatter_create(convention) ==
    [convention |-> convention, towgs84 |-> FALSE, hExt |-> "", vExt |-> "",
     out |-> <<>>]

IsWKT2(f) == f.convention \notin {"WKT1_GDAL", "WKT1_ESRI"}
Use2018Keywords(f) == f.convention \in {"WKT2_2018", "WKT2_2018_SIMPLIFIED"}
UseESRIDialect(f) == f.convention = "WKT1_ESRI"

\* WKTFormatter::startNode / endNode: the node is written at once
StartNode(f, keyword) == [f EXCEPT !.out = Append(@, keyword)]
EndNode(f) == [f EXCEPT !.out = Append(@, "]")]

\* an export that returned, and one that threw a FormattingException, with
\* the formatter as it was left
Returned(f) == [f |-> f, threw |-> FALSE]
Thrown(f) == [f |-> f, threw |-> TRUE]

\* Transformation::getTOWGS84Parameters succeeds, getNTv2Filename and
\* getHeightToGeographic3DFilename
HasTOWGS84Parameters(h, t) == h[t].method = "helmert"
GetNTv2Filename(h, t) == IF h[t].method = "ntv2" THEN "grid.gsb" ELSE ""
GetHeightToGeographic3DFilename(h, t) ==
    IF h[t].method = "geoid" THEN "geoid.gtx" ELSE ""

\* SingleCRS::exportDatumOrDatumEnsembleToWkt of x: the datum node, which in
\* WKT1 carries the TOWGS84 parameters and the datum extension of the
\* formatter
ExportDatumOrDatumEnsembleToWkt(h, x, f) ==
    IF h[x].datum = NoDatum
    THEN EndNode(StartNode(f, "ENSEMBLE"))
    ELSE IF h[x].cs.type = "vertical"
    THEN LET f1 == StartNode(f, IF IsWKT2(f) THEN "VDATUM" ELSE "VERT_DATUM")
             f2 == IF ~IsWKT2(f) /\ f.vExt # ""
                   THEN EndNode(StartNode(f1, "EXTENSION")) ELSE f1
         IN  EndNode(f2)
    ELSE LET f1 == StartNode(f, "DATUM")
             f2 == IF ~IsWKT2(f) /\ f.towgs84
                   THEN EndNode(StartNode(f1, "TOWGS84")) ELSE f1
             f3 == IF ~IsWKT2(f) /\ f.hExt # ""
                   THEN EndNode(StartNode(f2, "EXTENSION")) ELSE f2
         IN  EndNode(f3)

\* GeodeticCRS::_exportToWKT (GeographicCRS included)
GeodeticCRS_exportToWKT(h, x, f) ==
    LET f1 == StartNode(f,
                  IF IsWKT2(f)
                  THEN IF Use2018Keywords(f) /\ h[x].kind \in GeographicKinds
                       THEN "GEOGCRS" ELSE "GEODCRS"
                  ELSE IF h[x].cs.type = "Cartesian" THEN "GEOCCS"
                       ELSE "GEOGCS")
    IN  IF UseESRIDialect(f) /\ Len(h[x].cs.axes) # 2
        THEN Thrown(f1)
        ELSE Returned(EndNode(ExportDatumOrDatumEnsembleToWkt(h, x, f1)))

\* VerticalCRS::_exportToWKT
VerticalCRS_exportToWKT(h, x, f) ==
    Returned(EndNode(ExportDatumOrDatumEnsembleToWkt(h, x,
        StartNode(f, IF IsWKT2(f) THEN "VERTCRS" ELSE "VERT_CS"))))

\* DerivedCRS::baseExportToWKT and the bodies of the _exportToWKT of the
\* derived CRS, after their dialect test
DerivedCRS_baseExportToWKT(h, x, f, keyword, baseKeyword) ==
    LET f1 == StartNode(StartNode(f, keyword), baseKeyword)
        f2 == EndNode(ExportDatumOrDatumEnsembleToWkt(h, h[x].base, f1))
    IN  Returned(EndNode(EndNode(StartNode(f2, "DERIVINGCONVERSION"))))

\* the hub test by equivalence to EPSG:4326 instead
IsTOWGS84CompatibleByEquivalence(h, b) ==
    IsEquivalentTo(h, h[b].hub, EPSG_4326, "EQUIVALENT")

\* BoundCRS::isTOWGS84Compatible
IsTOWGS84Compatible(h, b) ==
    h[h[b].hub].kind \in GeodeticKinds /\ h[h[b].hub].name = "WGS 84"

\* BoundCRS::getHDatumPROJ4GRIDS and getVDatumPROJ4GRIDS
GetHDatumPROJ4GRIDS(h, b) ==
    IF h[h[b].hub].name = "WGS 84" THEN GetNTv2Filename(h, h[b].transf) ELSE ""
GetVDatumPROJ4GRIDS(h, b) ==
    IF h[h[b].base].kind \in {"VerticalCRS", "DerivedVerticalCRS"}
       /\ h[h[b].hub].name = "WGS 84"
    THEN GetHeightToGeographic3DFilename(h, h[b].transf) ELSE ""

\* the test of DerivedCRSTemplateCheckExportToWKT: TRUE when it throws
DerivedCRSTemplateCheckExportToWKT(f, wkt2_2018_only) ==
    ~IsWKT2(f) \/ (wkt2_2018_only /\ ~Use2018Keywords(f))

\* an _exportToWKT that goes on whatever its dialect test says
IgnoresDialect(unsupported) == FALSE

\* the dialect test that opens the _exportToWKT of the temporal, parametric
\* and derived CRS: the export throws when the dialect is not supported
RejectsDialect(unsupported) == unsupported

\* the virtual _exportToWKT of the CRS x on the formatter f
RECURSIVE ExportToWKT(_, _, _)
RECURSIVE ExportComponentsToWKT(_, _, _, _)

\* the loop of CompoundCRS::_exportToWKT over the components, from i on
ExportComponentsToWKT(h, components, i, f) ==
    IF i > Len(components) THEN Returned(f)
    ELSE LET r == ExportToWKT(h, components[i], f)
         IN  IF r.threw THEN r
             ELSE ExportComponentsToWKT(h, components, i + 1, r.f)

ExportToWKT(h, x, f) ==
    LET kind == h[x].kind IN
    IF kind \in {"GeodeticCRS", "GeographicCRS"}
    THEN GeodeticCRS_exportToWKT(h, x, f)
    ELSE IF kind = "VerticalCRS" THEN VerticalCRS_exportToWKT(h, x, f)
    ELSE IF kind = "ProjectedCRS"
    THEN LET f1 == StartNode(f, IF IsWKT2(f) THEN "PROJCRS" ELSE "PROJCS")
             r == IF IsWKT2(f)
                  THEN Returned(EndNode(ExportDatumOrDatumEnsembleToWkt(
                           h, h[x].base,
                           StartNode(f1,
                               IF Use2018Keywords(f)
                                  /\ h[h[x].base].kind \in GeographicKinds
                               THEN "BASEGEOGCRS" ELSE "BASEGEODCRS"))))
                  ELSE ExportToWKT(h, h[x].base, f1)
         IN  IF r.threw THEN r
             ELSE Returned(EndNode(EndNode(StartNode(r.f,
                      IF IsWKT2(f) THEN "CONVERSION" ELSE "PROJECTION"))))
    ELSE IF kind = "CompoundCRS"
    THEN LET r == ExportComponentsToWKT(h, h[x].components, 1,
                      StartNode(f, IF IsWKT2(f) THEN "COMPOUNDCRS"
                                   ELSE "COMPD_CS"))
         IN  IF r.threw THEN r ELSE Returned(EndNode(r.f))
    ELSE IF kind = "BoundCRS"
    THEN IF IsWKT2(f)
         THEN LET r1 == ExportToWKT(h, h[x].base,
                            StartNode(StartNode(f, "BOUNDCRS"), "SOURCECRS"))
              IN  IF r1.threw THEN r1
                  ELSE LET r2 == ExportToWKT(h, h[x].hub,
                                     StartNode(EndNode(r1.f), "TARGETCRS"))
                       IN  IF r2.threw THEN r2
                           ELSE Returned(EndNode(EndNode(StartNode(
                                    EndNode(r2.f), "ABRIDGEDTRANSFORMATION"))))
         ELSE IF GetVDatumPROJ4GRIDS(h, x) # ""
         THEN LET r == ExportToWKT(h, h[x].base,
                           [f EXCEPT !.vExt = GetVDatumPROJ4GRIDS(h, x)])
              IN  IF r.threw THEN r ELSE Returned([r.f EXCEPT !.vExt = ""])
         ELSE IF GetHDatumPROJ4GRIDS(h, x) # ""
         THEN LET r == ExportToWKT(h, h[x].base,
                           [f EXCEPT !.hExt = GetHDatumPROJ4GRIDS(h, x)])
              IN  IF r.threw THEN r ELSE Returned([r.f EXCEPT !.hExt = ""])
         ELSE IF ~IsTOWGS84Compatible(h, x) THEN Thrown(f)
         ELSE IF ~HasTOWGS84Parameters(h, h[x].transf) THEN Thrown(f)
         ELSE LET r == ExportToWKT(h, h[x].base,
                           IF UseESRIDialect(f) THEN f
                           ELSE [f EXCEPT !.towgs84 = TRUE])
              IN  IF r.threw THEN r ELSE Returned([r.f EXCEPT !.towgs84 = FALSE])
    ELSE IF kind \in {"DerivedGeodeticCRS", "DerivedGeographicCRS"}
    THEN IF RejectsDialect(~IsWKT2(f)) THEN Thrown(f)
         ELSE DerivedCRS_baseExportToWKT(h, x, f,
                  IF kind = "DerivedGeographicCRS" /\ Use2018Keywords(f)
                  THEN "GEOGCRS" ELSE "GEODCRS",
                  IF Use2018Keywords(f)
                     /\ h[h[x].base].kind \in GeographicKinds
                  THEN "BASEGEOGCRS" ELSE "BASEGEODCRS")
    ELSE IF kind = "DerivedProjectedCRS"
    THEN IF RejectsDialect(~IsWKT2(f) \/ ~Use2018Keywords(f)) THEN Thrown(f)
         ELSE LET f1 == StartNode(StartNode(StartNode(f, "DERIVEDPROJCRS"),
                                            "BASEPROJCRS"),
                            IF h[h[h[x].base].base].kind \in GeographicKinds
                            THEN "BASEGEOGCRS" ELSE "BASEGEODCRS")
                  f2 == EndNode(ExportDatumOrDatumEnsembleToWkt(
                                    h, h[h[x].base].base, f1))
                  f3 == EndNode(EndNode(StartNode(f2, "CONVERSION")))
              IN  Returned(EndNode(EndNode(
                      StartNode(f3, "DERIVINGCONVERSION"))))
    ELSE IF kind = "DerivedVerticalCRS"
    THEN IF RejectsDialect(~IsWKT2(f)) THEN Thrown(f)
         ELSE DerivedCRS_baseExportToWKT(h, x, f, "VERTCRS", "BASEVERTCRS")
    ELSE IF kind \in TemplateKinds
    THEN IF RejectsDialect(DerivedCRSTemplateCheckExportToWKT(
                               f, h[x].wkt2_2018_only))
         THEN Thrown(f)
         ELSE DerivedCRS_baseExportToWKT(h, x, f,
                  IF kind = "DerivedEngineeringCRS" THEN "ENGCRS"
                  ELSE IF kind = "DerivedParametricCRS" THEN "PARAMETRICCRS"
                  ELSE "TIMECRS",
                  IF kind = "DerivedEngineeringCRS" THEN "BASEENGCRS"
                  ELSE IF kind = "DerivedParametricCRS" THEN "BASEPARAMCRS"
                  ELSE "BASETIMECRS")
    ELSE IF kind \in {"TemporalCRS", "ParametricCRS"}
    THEN IF RejectsDialect(~IsWKT2(f)) THEN Thrown(f)
         ELSE Returned(EndNode(EndNode(StartNode(
                  StartNode(f, IF kind = "TemporalCRS" THEN "TIMECRS"
                               ELSE "PARAMETRICCRS"),
                  IF kind = "TemporalCRS" THEN "TDATUM" ELSE "PDATUM"))))
    ELSE \* EngineeringCRS: LOCAL_CS in WKT1
         Returned(EndNode(EndNode(StartNode(
             StartNode(f, IF IsWKT2(f) THEN "ENGCRS" ELSE "LOCAL_CS"),
             IF IsWKT2(f) THEN "EDATUM" ELSE "LOCAL_DATUM"))))

\* IWKTExportable::exportToWKT(formatter) called by the client on the CRS
\* x with a formatter it has just created
ExportToWKTCall(x, convention) ==
    /\ IsCRS(heap, x)
    /\ LET r == ExportToWKT(heap, x, WKTFormatter_create(convention))
       IN  last' = [Call("exportToWKT", x, Null, "", "", Null, r.threw)
                      EXCEPT !.formatter = r.f]
    /\ UNCHANGED <<heap, alive, nextId, roots, canonWrites, cap, lib>>

\* ------------------------------------------------------------------------
\* PROJ string export

PROJConventions == {"PROJ_5", "PROJ_4"}

\* io::PROJStringFormatter::create(convention)
PROJStringFormatter_create(convention) ==
    [convention |-> convention, towgs84 |-> FALSE, hExt |-> "", vExt |-> "",
     out |-> <<>>]

\* PROJStringFormatter::addStep / addParam
AddStep(f, step) == [f EXCEPT !.out = Append(@, step)]

\* the classes of crs.cpp that define _exportToPROJString
PROJStringExportableKinds ==
    {"GeodeticCRS", "GeographicCRS", "VerticalCRS", "ProjectedCRS",
     "CompoundCRS", "BoundCRS", "DerivedGeodeticCRS", "DerivedGeographicCRS",
     "DerivedProjectedCRS", "DerivedVerticalCRS"}

\* a dynamic_cast to IPROJStringExportable that never succeeds
NeverPROJStringExportable(h, x) == FALSE

\* dynamic_cast<const IPROJStringExportable *>(crs.get()) succeeds
IsPROJStringExportable(h, x) == h[x].kind \in PROJStringExportableKinds

\* GeodeticCRS::addDatumInfoToPROJString: the towgs84 and nadgrids
\* parameters of the formatter
AddDatumInfoToPROJString(f) ==
    LET f1 == IF f.towgs84 THEN AddStep(f, "towgs84") ELSE f
    IN  IF f.hExt # "" THEN AddStep(f1, "nadgrids") ELSE f1

\* a BoundCRS::_exportToPROJString without its test of the convention
PipelineAccepted(f) == FALSE

\* the first test of BoundCRS::_exportToPROJString: the pipeline convention
\* is refused
PipelineRefused(f) == f.convention = "PROJ_5"

\* the name of an axis starts with `prefix`, whatever the case
\* (ci_starts_with): the names are "Northing", "Easting" and their
\* abbreviations "N" and "E"
CiStartsWith(name, prefix) ==
    \/ name = "Northing" /\ prefix = "northing"
    \/ name = "Easting" /\ prefix = "easting"

\* a test of the axis names that any names pass
AnyAxisNames(cs) == TRUE

\* northingEasting of ProjectedCRS::addUnitConvertAndAxisSwap
NorthingEasting(cs) ==
    CiStartsWith(cs.axes[1], "northing") /\ CiStartsWith(cs.axes[2], "easting")

\* order[i] of ProjectedCRS::addUnitConvertAndAxisSwap: "" for nullptr
AxisOrder(dir) ==
    IF dir = "west" THEN "-1"
    ELSE IF dir = "east" THEN "1"
    ELSE IF dir = "south" THEN "-2"
    ELSE IF dir = "north" THEN "2"
    ELSE ""

\* ProjectedCRS::addUnitConvertAndAxisSwap(formatter, axisSpecFound) for a
\* ProjectedCRS of coordinate system cs
AddUnitConvertAndAxisSwap(f, cs, axisSpecFound) ==
    LET f1 == IF cs.unit = "metre" THEN f
              ELSE IF f.convention = "PROJ_5"
              THEN AddStep(AddStep(AddStep(f, "unitconvert"), "xy_in"),
                           "xy_out")
              ELSE AddStep(f, "units")
        dir0 == cs.dirs[1]
        dir1 == cs.dirs[2]
    IN  IF f.convention = "PROJ_5" /\ ~axisSpecFound
        THEN IF ~(dir0 = "east" /\ dir1 = "north") /\ dir0 # dir1
             THEN IF AxisOrder(dir0) # "" /\ AxisOrder(dir1) # ""
                  THEN AddStep(AddStep(AddStep(AddStep(f1, "axisswap"),
                                               "order"),
                                       AxisOrder(dir0)), AxisOrder(dir1))
                  ELSE f1
             ELSE IF /\ \/ dir0 = "south" /\ dir1 = "south"
                        \/ dir0 = "north" /\ dir1 = "north"
                     /\ NorthingEasting(cs)
                  THEN AddStep(AddStep(AddStep(AddStep(f1, "axisswap"),
                                               "order"), "2"), "1")
                  ELSE f1
        ELSE f1

\* whether Conversion::_exportToPROJString has written an axis
\* specification itself: it does for the methods with a fixed +axis
AxisSpecFound(h, conv) == h[conv].method = "krovak"

\* the virtual _exportToPROJString of the CRS x on the formatter f
RECURSIVE ExportToPROJString(_, _, _)
RECURSIVE ExportComponentsToPROJString(_, _, _, _)

\* the loop of CompoundCRS::_exportToPROJString, from i on
ExportComponentsToPROJString(h, components, i, f) ==
    IF i > Len(components) THEN Returned(f)
    ELSE IF ~IsPROJStringExportable(h, components[i])
    THEN ExportComponentsToPROJString(h, components, i + 1, f)
    ELSE LET r == ExportToPROJString(h, components[i], f)
         IN  IF r.threw THEN r
             ELSE ExportComponentsToPROJString(h, components, i + 1, r.f)

ExportToPROJString(h, x, f) ==
    LET kind == h[x].kind IN
    IF kind = "GeodeticCRS"
    THEN IF h[x].cs.type # "Cartesian" THEN Thrown(f)
         ELSE LET f1 == AddStep(f, IF f.convention = "PROJ_4" THEN "geocent"
                                   ELSE "cart")
              IN  Returned(IF f.convention = "PROJ_4" /\ f.towgs84
                           THEN AddStep(f1, "towgs84") ELSE f1)
    ELSE IF kind = "GeographicCRS"
    THEN Returned(AddDatumInfoToPROJString(AddStep(f, "longlat")))
    ELSE IF kind = "VerticalCRS"
    THEN Returned(AddStep(IF f.vExt # "" THEN AddStep(f, "geoidgrids") ELSE f,
                          "vunits"))
    ELSE IF kind = "CompoundCRS"
    THEN ExportComponentsToPROJString(h, h[x].components, 1, f)
    ELSE IF kind = "BoundCRS"
    THEN IF PipelineRefused(f) THEN Thrown(f)
         ELSE IF h[h[x].base].kind \notin PROJStringExportableKinds
         THEN Thrown(f)
         ELSE IF GetVDatumPROJ4GRIDS(h, x) # ""
         THEN LET r == ExportToPROJString(h, h[x].base,
                           [f EXCEPT !.vExt = GetVDatumPROJ4GRIDS(h, x)])
              IN  IF r.threw THEN r ELSE Returned([r.f EXCEPT !.vExt = ""])
         ELSE IF GetHDatumPROJ4GRIDS(h, x) # ""
         THEN LET r == ExportToPROJString(h, h[x].base,
                           [f EXCEPT !.hExt = GetHDatumPROJ4GRIDS(h, x)])
              IN  IF r.threw THEN r ELSE Returned([r.f EXCEPT !.hExt = ""])
         ELSE IF IsTOWGS84Compatible(h, x)
                 /\ ~HasTOWGS84Parameters(h, h[x].transf)
         THEN Thrown(f)
         ELSE LET r == ExportToPROJString(h, h[x].base,
                           [f EXCEPT !.towgs84 = IsTOWGS84Compatible(h, x)])
              IN  IF r.threw THEN r ELSE Returned([r.f EXCEPT !.towgs84 = FALSE])
    ELSE IF kind = "ProjectedCRS"
    THEN \* Conversion::_exportToPROJString, which ends with the
         \* addUnitConvertAndAxisSwap of the ProjectedCRS; the steps of the
         \* base CRS are left out
         Returned(AddUnitConvertAndAxisSwap(AddStep(f, "conversion"),
                                            h[x].cs,
                                            AxisSpecFound(h, h[x].conv)))
    ELSE IF kind \in PROJStringExportableKinds
    THEN \* DerivedCRS::baseExportToPROJString: the deriving conversion
         Returned(AddStep(f, "conversion"))
    ELSE Thrown(f)

\* IPROJStringExportable::exportToPROJString(formatter) called by the
\* client on the CRS x with a formatter it has just created
ExportToPROJStringCall(x, convention) ==
    /\ IsCRS(heap, x)
    /\ heap[x].kind \in PROJStringExportableKinds
    /\ LET r == ExportToPROJString(heap, x,
                    PROJStringFormatter_create(convention))
       IN  last' = [Call("exportToPROJString", x, Null, "", "", Null, r.threw)
                      EXCEPT !.formatter = r.f]
    /\ UNCHANGED <<heap, alive, nextId, roots, canonWrites, cap, lib>>

\* ------------------------------------------------------------------------
\* Accessors, and the client dropping a reference

\* CRS::canonicalBoundCRS: the caller gets a reference when it is not null
CanonicalBoundCRS(x) ==
    /\ IsCRS(heap, x)
    /\ roots' = roots \cup ({heap[x].canonical} \ {Null})
    /\ last' = Call("canonicalBoundCRS", x, Null, "", "", heap[x].canonical, FALSE)
    /\ UNCHANGED <<heap, alive, nextId, canonWrites, cap, lib>>

\* BoundCRS::baseCRS / ProjectedCRS::baseCRS
BaseCRS(x) ==
    /\ heap[x].kind \in {"BoundCRS"} \cup DerivedKinds
    /\ roots' = roots \cup {heap[x].base}
    /\ last' = Call("baseCRS", x, Null, "", "", heap[x].base, FALSE)
    /\ UNCHANGED <<heap, alive, nextId, canonWrites, cap, lib>>

\* a shared pointer of the client goes out of scope
Drop(r) ==
    /\ r \notin Statics
    /\ roots' = roots \ {r}
    /\ alive' = Release(heap, alive, roots' \cup Statics)
    /\ heap' = Wipe(heap, alive')
    /\ last' = Call("drop", r, Null, "", "", Null, FALSE)
    /\ UNCHANGED <<nextId, canonWrites, cap, lib>>

\* ------------------------------------------------------------------------
\* Specifications

Names == {"A"}

\* ------------------------------------------------------------------------
\* common::UnitOfMeasure and common::Measure, Scale, Angle, Length
\* (doubles are fixed-point numbers with three decimals: 1000 is 1.0)

\* UnitOfMeasure::UnitOfMeasure(name, toSI, type, authority, code)
UnitOfMeasure(nameIn, toSIIn, typeIn) ==
    [name |-> nameIn, toSI |-> toSIIn, type |-> typeIn]

\* UnitOfMeasure::conversionToSI() / UnitOfMeasure::type()
ConversionToSI(unit) == unit.toSI
UnitType(unit) == unit.type

SCALE_UNITY == UnitOfMeasure("unity", 1000, "SCALE")

\* the units the client builds measures with
Units ==
    {UnitOfMeasure("metre", 1000, "LINEAR"),
     UnitOfMeasure("millimetre", 1, "LINEAR"),
     UnitOfMeasure("radian", 1000, "ANGULAR"),
     UnitOfMeasure("milliradian", 1, "ANGULAR"),
     SCALE_UNITY}

\* Measure::Measure(valueIn, unitIn): stores both, whatever the unit
Measure(class, valueIn, unitIn) ==
    [class |-> class, value |-> valueIn, unit |-> unitIn]

\* Measure::getSIValue(): value * unit.conversionToSI()
GetSIValue(m) == (m.value * ConversionToSI(m.unit)) \div 1000

\* Measure::convertToUnit(otherUnit):
\* Measure(getSIValue() / otherUnit.conversionToSI(), otherUnit)
Measure_convertToUnit(m, otherUnit) ==
    Measure("Measure",
            (GetSIValue(m) * 1000) \div ConversionToSI(otherUnit),
            otherUnit)

crs == <<heap, alive, nextId, roots, last, canonWrites, cap>>

\* a measure the client makes is kept while there is room for it
Keep(m) ==
    /\ Cardinality(measures \cup {m}) <= MaxMeasures
    /\ measures' = measures \cup {m}
    /\ UNCHANGED <<crs, ellipsoidVars, mutexVars, defmodelVars>>

\* Scale::Scale(valueIn): Measure(valueIn, UnitOfMeasure::SCALE_UNITY)
Scale_create(valueIn) == Keep(Measure("Scale", valueIn, SCALE_UNITY))

\* Angle::Angle(valueIn, unitIn): Measure(valueIn, unitIn)
Angle_create(valueIn, unitIn) == Keep(Measure("Angle", valueIn, unitIn))

\* Length::Length(valueIn, unitIn): Measure(valueIn, unitIn)
Length_create(valueIn, unitIn) == Keep(Measure("Length", valueIn, unitIn))

\* Angle::convertToUnit(otherUnit):
\* Angle(Measure::convertToUnit(otherUnit).value(), otherUnit)
Angle_convertToUnit(m, otherUnit) ==
    /\ m.class = "Angle"
    /\ Keep(Measure("Angle", Measure_convertToUnit(m, otherUnit).value,
                    otherUnit))

\* Length::convertToUnit(otherUnit):
\* Length(Measure::convertToUnit(otherUnit).value(), otherUnit)
Length_convertToUnit(m, otherUnit) ==
    /\ m.class = "Length"
    /\ Keep(Measure("Length", Measure_convertToUnit(m, otherUnit).value,
                    otherUnit))

\* Scale inherits Measure::convertToUnit: the result is a plain Measure
Scale_convertToUnit(m, otherUnit) ==
    /\ m.class = "Scale"
    /\ Keep(Measure_convertToUnit(m, otherUnit))

\* ------------------------------------------------------------------------
\* datum::Ellipsoid

\* an optional<> without a value
NoValue == [class |-> "none"]

METRE == UnitOfMeasure("metre", 1000, "LINEAR")

\* Ellipsoid::Private: the three constructors store their arguments
Ellipsoid(semiMajorAxisIn, invFlattening, semiMinorAxisIn) ==
    [semiMajorAxis |-> semiMajorAxisIn, inverseFlattening |-> invFlattening,
     semiMinorAxis |-> semiMinorAxisIn]

\* nn_make_shared<Ellipsoid>(...) and setProperties: the object exists
MakeEllipsoid(e) ==
    /\ Cardinality(ellipsoids \cup {e}) <= MaxEllipsoids
    /\ ellipsoids' = ellipsoids \cup {e}
    /\ UNCHANGED <<crs, measureVars, mutexVars, defmodelVars>>

\* Ellipsoid::createSphere(properties, radius)
Ellipsoid_createSphere(radius) ==
    MakeEllipsoid(Ellipsoid(radius, NoValue, NoValue))

\* Ellipsoid::createFlattenedSphere(properties, semiMajorAxisIn,
\* invFlattening)
Ellipsoid_createFlattenedSphere(semiMajorAxisIn, invFlattening) ==
    MakeEllipsoid(Ellipsoid(semiMajorAxisIn, invFlattening, NoValue))

\* Ellipsoid::createTwoAxis(properties, semiMajorAxisIn, semiMinorAxisIn)
Ellipsoid_createTwoAxis(semiMajorAxisIn, semiMinorAxisIn) ==
    MakeEllipsoid(Ellipsoid(semiMajorAxisIn, NoValue, semiMinorAxisIn))

\* ------------------------------------------------------------------------
\* pj_mutex.c, MUTEX_pthread: the core lock

Threads == 1..MaxThreads
NoThread == 0

\* static pthread_mutex_t pj_precreated_lock = PTHREAD_MUTEX_INITIALIZER;
\* static pthread_mutex_t pj_core_lock; static int pj_core_lock_created = 0;
InitPthread ==
    /\ thread = [t \in Threads |-> [pc |-> "out", depth |-> 0]]
    /\ pj_precreated_lock = NoThread
    /\ pj_core_lock = [owner |-> NoThread, count |-> 0, inits |-> 0]
    /\ pj_core_lock_created = FALSE

\* thread t moves to pc
Goto(t, pc) == thread' = [thread EXCEPT ![t].pc = pc]

\* pj_acquire_lock() is entered: if (!pj_core_lock_created)
AcquireEnter(t) ==
    /\ thread[t].pc = "out"
    /\ thread[t].depth < MaxDepth
    /\ Goto(t, IF pj_core_lock_created THEN "lock_core" ELSE "lock_precreated")
    /\ UNCHANGED <<pj_precreated_lock, pj_core_lock, pj_core_lock_created>>
    /\ UNCHANGED <<crs, measureVars, ellipsoidVars, win32Vars, defmodelVars>>

\* pthread_mutex_lock(&pj_precreated_lock)
LockPrecreated(t) ==
    /\ thread[t].pc = "lock_precreated"
    /\ pj_precreated_lock = NoThread
    /\ pj_precreated_lock' = t
    /\ Goto(t, "init")
    /\ UNCHANGED <<pj_core_lock, pj_core_lock_created>>
    /\ UNCHANGED <<crs, measureVars, ellipsoidVars, win32Vars, defmodelVars>>

\* pthread_mutex_init(&pj_core_lock, &mutex_attr), recursive. Initialising a
\* mutex that is locked is undefined: the mutex is either reset to unlocked
\* or keeps its owner
InitCoreLock(t) ==
    /\ thread[t].pc = "init"
    /\ \E reset \in (IF pj_core_lock.owner = NoThread
                      THEN {TRUE} ELSE BOOLEAN) :
           pj_core_lock' =
               [owner |-> IF reset THEN NoThread ELSE pj_core_lock.owner,
                count |-> IF reset THEN 0 ELSE pj_core_lock.count,
                inits |-> pj_core_lock.inits + 1]
    /\ Goto(t, "created")
    /\ UNCHANGED <<pj_precreated_lock, pj_core_lock_created>>
    /\ UNCHANGED <<crs, measureVars, ellipsoidVars, win32Vars, defmodelVars>>

\* pj_core_lock_created = 1
SetCreated(t) ==
    /\ thread[t].pc = "created"
    /\ pj_core_lock_created' = TRUE
    /\ Goto(t, "unlock_precreated")
    /\ UNCHANGED <<pj_precreated_lock, pj_core_lock>>
    /\ UNCHANGED <<crs, measureVars, ellipsoidVars, win32Vars, defmodelVars>>

\* pthread_mutex_unlock(&pj_precreated_lock)
UnlockPrecreated(t) ==
    /\ thread[t].pc = "unlock_precreated"
    /\ pj_precreated_lock' = NoThread
    /\ Goto(t, "lock_core")
    /\ UNCHANGED <<pj_core_lock, pj_core_lock_created>>
    /\ UNCHANGED <<crs, measureVars, ellipsoidVars, win32Vars, defmodelVars>>

\* pthread_mutex_lock(&pj_core_lock), and pj_acquire_lock() returns
LockCore(t) ==
    /\ thread[t].pc = "lock_core"
    /\ pj_core_lock.owner \in {NoThread, t}
    /\ pj_core_lock' = [pj_core_lock EXCEPT !.owner = t, !.count = @ + 1]
    /\ thread' = [thread EXCEPT ![t].pc = "out", ![t].depth = @ + 1]
    /\ UNCHANGED <<pj_precreated_lock, pj_core_lock_created>>
    /\ UNCHANGED <<crs, measureVars, ellipsoidVars, win32Vars, defmodelVars>>

\* pj_release_lock(): pthread_mutex_unlock(&pj_core_lock); a recursive mutex
\* refuses the unlock of a thread that does not own it
pj_release_lock(t) ==
    /\ thread[t].pc = "out"
    /\ thread[t].depth > 0
    /\ pj_core_lock' =
           IF pj_core_lock.owner # t THEN pj_core_lock
           ELSE [pj_core_lock EXCEPT
                     !.count = @ - 1,
                     !.owner = IF pj_core_lock.count = 1 THEN NoThread ELSE t]
    /\ thread' = [thread EXCEPT ![t].depth = @ - 1]
    /\ UNCHANGED <<pj_precreated_lock, pj_core_lock_created>>
    /\ UNCHANGED <<crs, measureVars, ellipsoidVars, win32Vars, defmodelVars>>

\* ------------------------------------------------------------------------
\* pj_mutex.c, MUTEX_win32: the six lazily created locks, used by one thread
\* (pj_spin_lock and pj_spin_unlock are then taken and released at once)

\* pj_mutex_lock and pj_cs_default_ctxt, pj_cs_initcache, pj_cs_gridinfo,
\* pj_cs_gridlist, pj_cs_gridcatalog
Win32Locks ==
    {"core", "default_ctxt", "initcache", "gridinfo", "gridlist",
     "gridcatalog"}

\* static HANDLE pj_mutex_lock = NULL; static CRITICAL_SECTION* ... = NULL;
InitWin32 ==
    /\ pj_lock = [l \in Win32Locks |-> [created |-> FALSE, held |-> 0]]
    /\ pj_lock_call = "none"

\* pj_acquire_lock() and pj_acquire_lock_<l>(): the lock is created when its
\* pointer is NULL, then waited for (a mutex) or entered (a critical
\* section); both are recursive
Win32Acquire(l) ==
    /\ pj_lock[l].held < MaxDepth
    /\ pj_lock' = [pj_lock EXCEPT
                      ![l] = [created |-> TRUE, held |-> @.held + 1]]
    /\ pj_lock_call' = "acquire"
    /\ UNCHANGED <<crs, measureVars, ellipsoidVars, pthreadVars, defmodelVars>>

\* pj_release_lock() and pj_release_lock_<l>(), matching an acquire
Win32Release(l) ==
    /\ pj_lock[l].held > 0
    /\ pj_lock' = [pj_lock EXCEPT ![l].held = @ - 1]
    /\ pj_lock_call' = "release"
    /\ UNCHANGED <<crs, measureVars, ellipsoidVars, pthreadVars, defmodelVars>>

\* the body of pj_cleanup_lock() for the mutex and pj_cleanup_lock_<l>():
\* a lock whose pointer is not NULL is closed or deleted and freed, and the
\* pointer is set to NULL
Win32CleanupLock(locks, l) ==
    IF locks[l].created
    THEN [locks EXCEPT ![l] = [created |-> FALSE, held |-> 0]]
    ELSE locks

\* pj_cleanup_lock(): the mutex, then pj_cleanup_lock_default_ctxt() and
\* pj_cleanup_lock_initcache()
Win32Cleanup ==
    /\ pj_lock' = Win32CleanupLock(
                      Win32CleanupLock(Win32CleanupLock(pj_lock, "core"),
                                       "default_ctxt"),
                      "initcache")
    /\ pj_lock_call' = "pj_cleanup_lock"
    /\ UNCHANGED <<crs, measureVars, ellipsoidVars, pthreadVars, defmodelVars>>

\* ------------------------------------------------------------------------
\* defmodel.hpp: the time functions of a component and the cache of
\* ComponentEx (decimal years and factors are integers)

Epochs == 0..MaxDt
Dates == (0 - MaxDt)..MaxDt

\* the time functions a component is built with
TimeFunctions ==
    {[type |-> "constant", epoch |-> 0]}
        \cup {[type |-> t, epoch |-> e] :
                 t \in {"velocity", "step", "reverse_step"}, e \in Epochs}

\* Component::ConstantTimeFunction::evaluateAt, VelocityTimeFunction,
\* StepTimeFunction and ReverseStepTimeFunction
TimeFunction_evaluateAt(tf, dt) ==
    CASE tf.type = "constant" -> 1
      [] tf.type = "velocity" -> dt - tf.epoch
      [] tf.type = "step" -> IF dt < tf.epoch THEN 0 ELSE 1
      [] tf.type = "reverse_step" -> IF dt < tf.epoch THEN 0 - 1 ELSE 0

NoEvaluation == [component |-> 0, dt |-> 0, ret |-> 0]

InitDefmodel ==
    /\ mComponents = <<>>
    /\ evaluated = NoEvaluation

\* ComponentEx::ComponentEx(componentIn): mCachedDt = 0, mCachedValue = 0
ComponentEx_create(timeFunction) ==
    /\ Len(mComponents) < MaxComponentsEx
    /\ mComponents' =
           Append(mComponents, [timeFunction |-> timeFunction,
                                mCachedDt |-> 0, mCachedValue |-> 0])
    /\ UNCHANGED evaluated
    /\ UNCHANGED <<crs, measureVars, ellipsoidVars, mutexVars>>

\* ComponentEx::evaluateAt(dt) on the i-th component
ComponentEx_evaluateAt(i, dt) ==
    LET c == mComponents[i] IN
    /\ IF dt = c.mCachedDt
       THEN /\ evaluated' = [component |-> i, dt |-> dt,
                             ret |-> c.mCachedValue]
            /\ UNCHANGED mComponents
       ELSE LET v == TimeFunction_evaluateAt(c.timeFunction, dt)
            IN  /\ mComponents' =
                       [mComponents EXCEPT ![i].mCachedDt = dt,
                                           ![i].mCachedValue = v]
                /\ evaluated' = [component |-> i, dt |-> dt, ret |-> v]
    /\ UNCHANGED <<crs, measureVars, ellipsoidVars, mutexVars>>

InitWith(c, used) ==
    /\ heap = [o \in Ids |-> IF o = EPSG_4326 THEN Obj4326
                             ELSE IF o = EPSG_4978 THEN Obj4978
                             ELSE IF o = EPSG_4267 THEN Obj4267 ELSE Blank]
    /\ alive = Statics
    /\ nextId = 4
    /\ roots = used
    /\ last = NoCall
    /\ canonWrites = [o \in Ids |-> 0]
    /\ cap = c
    /\ measures = {}
    /\ ellipsoids = {}
    /\ InitPthread
    /\ InitWin32
    /\ InitDefmodel

\* Measures: the client makes lengths, angles and scales and converts them
InitMeasure == InitWith(3, {})

NextMeasure ==
    \/ \E u \in Units : Length_create(1000, u)
    \/ \E u \in Units : Angle_create(1000, u)
    \/ Scale_create(1000)
    \/ \E m \in measures, u \in Units : Length_convertToUnit(m, u)
    \/ \E m \in measures, u \in Units : Angle_convertToUnit(m, u)
    \/ \E m \in measures, u \in Units : Scale_convertToUnit(m, u)

SpecMeasure == InitMeasure /\ [][NextMeasure]_vars

\* Ellipsoids: the client calls the three factories with lengths in metres
\* and inverse flattenings of any sign
InitEllipsoid == InitWith(3, {})

AxisLengths == {Measure("Length", v, METRE) : v \in {-1000, 0, 1000, 2000}}
Flattenings == {Measure("Scale", v, SCALE_UNITY) : v \in {-1000, 0, 2000}}

NextEllipsoid ==
    \/ \E radius \in AxisLengths : Ellipsoid_createSphere(radius)
    \/ \E a \in AxisLengths, invf \in Flattenings :
           Ellipsoid_createFlattenedSphere(a, invf)
    \/ \E a \in AxisLengths, b \in AxisLengths :
           Ellipsoid_createTwoAxis(a, b)

SpecEllipsoid == InitEllipsoid /\ [][NextEllipsoid]_vars

\* The pthread build: threads call pj_acquire_lock() and pj_release_lock()
\* concurrently, from the first use on
InitCoreLockUse == InitWith(3, {})

NextCoreLockUse ==
    \E t \in Threads :
        \/ AcquireEnter(t)
        \/ LockPrecreated(t)
        \/ InitCoreLock(t)
        \/ SetCreated(t)
        \/ UnlockPrecreated(t)
        \/ LockCore(t)
        \/ pj_release_lock(t)

SpecCoreLock == InitCoreLockUse /\ [][NextCoreLockUse]_vars

\* The win32 build: one thread acquires and releases the six locks and
\* calls pj_cleanup_lock()
InitWin32Use == InitWith(3, {})

NextWin32Use ==
    \/ \E l \in Win32Locks : Win32Acquire(l)
    \/ \E l \in Win32Locks : Win32Release(l)
    \/ Win32Cleanup

SpecWin32 == InitWin32Use /\ [][NextWin32Use]_vars

\* The deformation model: components are wrapped in ComponentEx and their
\* time factor is asked at successive dates
InitTimeFunction == InitWith(3, {})

NextTimeFunction ==
    \/ \E tf \in TimeFunctions : ComponentEx_create(tf)
    \/ \E i \in 1..Len(mComponents), dt \in Dates :
           ComponentEx_evaluateAt(i, dt)

SpecTimeFunction == InitTimeFunction /\ [][NextTimeFunction]_vars

\* Derived CRS: ProjectedCRS::create, shallowClone, stripVerticalComponent,
\* derivingConversion over client-made geographic CRS and conversions
Init == InitWith(MaxObjDerived, {EPSG_4326})

Next ==
    \/ \E name \in Names, cs \in {LatLong, LatLongHeight} :
          GeographicCRS_create(name, "NAD27", NoDatum, cs)
    \/ \E method \in Methods : Conversion_create(method)
    \/ \E name \in Names, base \in roots, conv \in roots,
          cs \in {EastingNorthing, EastingNorthingHeight} :
          ProjectedCRS_create(name, base, conv, cs)
    \/ \E x \in roots : ShallowClone(x)
    \/ \E p \in roots : DerivingConversion(p)
    \/ \E x \in roots : StripVerticalComponent(x)

Spec == Init /\ [][Next]_vars

\* Single CRS factories with every combination of datum and ensemble
InitSingle == InitWith(MaxObjSingle, {EPSG_4326})

NextSingle ==
    \/ \E name \in Names, datum \in Datums \cup {NoDatum},
          ens \in Ensembles \cup {NoDatum}, cs \in {LatLong, LatLongHeight} :
          GeographicCRS_create(name, datum, ens, cs)
    \/ \E name \in Names, datum \in Datums \cup {NoDatum},
          ens \in Ensembles \cup {NoDatum} :
          GeodeticCRS_create(name, datum, ens, Geocentric)
    \/ \E name \in Names, datum \in {"NAVD88", NoDatum},
          ens \in Ensembles \cup {NoDatum} :
          VerticalCRS_create(name, datum, ens, GravityRelatedHeight)
    \/ \E method \in Methods : Conversion_create(method)
    \/ \E name \in Names, base \in roots, conv \in roots :
          ProjectedCRS_create(name, base, conv, EastingNorthing)
    \/ \E x \in roots : ShallowClone(x)
    \/ \E x \in roots : StripVerticalComponent(x)

SpecSingle == InitSingle /\ [][NextSingle]_vars

\* BoundCRS over geodetic CRS and the canonical BoundCRS link
InitBound == InitWith(MaxObjBound, {EPSG_4326})

NextBound ==
    \/ \E x \in roots : ShallowClone(x)
    \/ \E base \in roots : BoundCRS_createFromTOWGS84(base)
    \/ \E base \in roots : BoundCRS_createFromNadgrids(base)
    \/ \E b \in roots : BaseCRSWithCanonicalBoundCRS(b)
    \/ \E x \in roots : CanonicalBoundCRS(x)
    \/ \E x \in roots : BaseCRS(x)

SpecBound == InitBound /\ [][NextBound]_vars

\* BoundCRS over projected CRS and the canonical BoundCRS link
InitBoundDerived == InitWith(MaxObjBoundDerived, {EPSG_4326})

NextBoundDerived ==
    \/ \E method \in Methods : Conversion_create(method)
    \/ \E name \in Names, base \in roots, conv \in roots :
          ProjectedCRS_create(name, base, conv, EastingNorthing)
    \/ \E base \in roots : BoundCRS_createFromTOWGS84(base)
    \/ \E b \in roots : BaseCRSWithCanonicalBoundCRS(b)
    \/ \E x \in roots : BaseCRS(x)

SpecBoundDerived == InitBoundDerived /\ [][NextBoundDerived]_vars

\* ownership: derived and bound CRS with the client dropping its references
InitOwnership == InitWith(MaxObjOwnership, {EPSG_4326})

NextOwnership ==
    \/ \E method \in Methods : Conversion_create(method)
    \/ \E name \in Names, base \in roots, conv \in roots :
          ProjectedCRS_create(name, base, conv, EastingNorthing)
    \/ \E x \in roots : ShallowClone(x)
    \/ \E p \in roots : DerivingConversion(p)
    \/ \E base \in roots : BoundCRS_createFromTOWGS84(base)
    \/ \E base \in roots : BoundCRS_createFromNadgrids(base)
    \/ \E b \in roots : BaseCRSWithCanonicalBoundCRS(b)
    \/ \E x \in roots : CanonicalBoundCRS(x)
    \/ \E r \in roots : Drop(r)

SpecOwnership == InitOwnership /\ [][NextOwnership]_vars

\* createBoundCRSToWGS84IfPossible with every database context
InitWGS84 == InitWith(MaxObjWGS84, Statics)

NextWGS84 ==
    \/ \E name \in Names :
          GeographicCRS_create(name, "WGS84", NoDatum, LatLong)
    \/ \E method \in Methods : Conversion_create(method)
    \/ \E name \in Names, base \in roots, conv \in roots :
          ProjectedCRS_create(name, base, conv, EastingNorthing)
    \/ Transformation_create("helmert", EPSG_4326, EPSG_4978)
    \/ \E base \in roots, transf \in roots :
          BoundCRS_create(base, EPSG_4978, transf)
    \/ \E base \in roots : BoundCRS_createFromTOWGS84(base)
    \/ \E b \in roots : BaseCRSWithCanonicalBoundCRS(b)
    \/ \E x \in roots, dbContext \in DbChoices :
          CreateBoundCRSToWGS84IfPossible(x, dbContext)

SpecWGS84 == InitWGS84 /\ [][NextWGS84]_vars

\* createBoundCRSToWGS84IfPossible querying the candidate operations, and
\* the BoundCRS factories with every hub and transformation
InitOperations == InitWith(MaxObjOperations, Statics)

NextOperations ==
    \/ \E method \in Methods : Conversion_create(method)
    \/ \E name \in Names, conv \in roots :
          ProjectedCRS_create(name, EPSG_4267, conv, EastingNorthing)
    \/ \E target \in {EPSG_4326, EPSG_4978} :
          Transformation_create("helmert", EPSG_4267, target)
    \/ \E hub \in {EPSG_4326, EPSG_4978}, transf \in roots :
          BoundCRS_create(EPSG_4267, hub, transf)
    \/ \E base \in roots : BoundCRS_createFromTOWGS84(base)
    \/ \E base \in roots : BoundCRS_createFromNadgrids(base)
    \/ \E x \in roots, dbContext \in DbChoices :
          CreateBoundCRSToWGS84IfPossible(x, dbContext)

SpecOperations == InitOperations /\ [][NextOperations]_vars

\* Compound CRS over geographic, geocentric and vertical CRS
InitCompound == InitWith(MaxObjCompound, {EPSG_4326, EPSG_4978})

ComponentLists == UNION {[1..n -> roots] : n \in 1..MaxComponents}

NextCompound ==
    \/ \E name \in Names :
          VerticalCRS_create(name, "NAVD88", NoDatum, GravityRelatedHeight)
    \/ \E name \in Names, components \in ComponentLists :
          CompoundCRS_create(name, components)
    \/ \E method \in Methods : Conversion_create(method)
    \/ \E name \in Names, base \in roots, conv \in roots :
          ProjectedCRS_create(name, base, conv, EastingNorthing)
    \/ \E base \in roots : BoundCRS_createFromNadgrids(base)
    \/ \E x \in roots : ExtractGeographicCRSCall(x)

SpecCompound == InitCompound /\ [][NextCompound]_vars

\* stripVerticalComponent over CRS of two and three axes of every kind
InitStrip == InitWith(MaxObjStrip, {EPSG_4326, EPSG_4978})

NextStrip ==
    \/ \E name \in Names, cs \in {LatLong, LatLongHeight} :
          GeographicCRS_create(name, NoDatum, "EnsGeod", cs)
    \/ \E name \in Names :
          VerticalCRS_create(name, "NAVD88", NoDatum, GravityRelatedHeight)
    \/ \E method \in Methods : Conversion_create(method)
    \/ \E name \in Names, base \in roots, conv \in roots,
          cs \in {EastingNorthing, EastingNorthingHeight} :
          ProjectedCRS_create(name, base, conv, cs)
    \/ \E name \in Names, base \in roots, conv \in roots,
          cs \in {LatLong, LatLongHeight} :
          DerivedGeographicCRS_create(name, base, conv, cs)
    \/ \E base \in roots : BoundCRS_createFromNadgrids(base)
    \/ \E x \in roots : StripVerticalComponent(x)

SpecStrip == InitStrip /\ [][NextStrip]_vars

\* WKT1 export of the static CRS and of the vertical and
\* bound CRS the client makes over them
InitExport == InitWith(MaxObjExport, Statics)

NextExport ==
    \/ \E name \in Names :
          VerticalCRS_create(name, "NAVD88", NoDatum, GravityRelatedHeight)
    \/ \E method \in TransformationMethods :
          Transformation_create(method, EPSG_4267, EPSG_4326)
    \/ \E base \in {r \in roots : heap[r].kind \in SingleKinds},
          hub \in Statics, transf \in roots :
          BoundCRS_create(base, hub, transf)
    \/ \E x \in roots, convention \in {"WKT1_GDAL", "WKT1_ESRI"} :
          ExportToWKTCall(x, convention)

SpecExport == InitExport /\ [][NextExport]_vars

\* PROJ string export of the static CRS and of the vertical and bound CRS
\* the client makes over them
InitPROJ == InitWith(MaxObjPROJ, Statics)

NextPROJ ==
    \/ \E name \in Names :
          VerticalCRS_create(name, "NAVD88", NoDatum, GravityRelatedHeight)
    \/ \E method \in TransformationMethods :
          Transformation_create(method, EPSG_4267, EPSG_4326)
    \/ \E base \in roots, hub \in Statics, transf \in roots :
          BoundCRS_create(base, hub, transf)
    \/ \E x \in roots, convention \in PROJConventions :
          ExportToPROJStringCall(x, convention)

SpecPROJ == InitPROJ /\ [][NextPROJ]_vars

\* WKT export, in every dialect, of temporal, engineering, parametric and
\* derived CRS the client makes
InitDialect == InitWith(MaxObjDialect, {EPSG_4326})

NextDialect ==
    \/ \E name \in Names :
          VerticalCRS_create(name, "NAVD88", NoDatum, GravityRelatedHeight)
    \/ \E name \in Names : TemporalCRS_create(name, "Epoch", TemporalCS)
    \/ \E name \in Names : EngineeringCRS_create(name, "Local", EastingNorthing)
    \/ \E name \in Names : ParametricCRS_create(name, "Pressure", ParametricCS)
    \/ \E method \in Methods : Conversion_create(method)
    \/ \E name \in Names, base \in roots, conv \in roots :
          ProjectedCRS_create(name, base, conv, EastingNorthing)
    \/ \E name \in Names, base \in roots, conv \in roots :
          DerivedGeodeticCRS_create(name, base, conv, Geocentric)
    \/ \E name \in Names, base \in roots, conv \in roots :
          DerivedGeographicCRS_create(name, base, conv, LatLong)
    \/ \E name \in Names, base \in roots, conv \in roots :
          DerivedProjectedCRS_create(name, base, conv, EastingNorthing)
    \/ \E name \in Names, base \in roots, conv \in roots :
          DerivedVerticalCRS_create(name, base, conv, GravityRelatedHeight)
    \/ \E kind \in TemplateKinds, name \in Names, base \in roots,
          conv \in roots, wkt2_2018_only \in BOOLEAN :
          DerivedCRSTemplate_create(kind, name, base, conv, heap[base].cs,
                                    wkt2_2018_only)
    \/ \E x \in roots, convention \in WKTConventions :
          ExportToWKTCall(x, convention)

SpecDialect == InitDialect /\ [][NextDialect]_vars

\* Comparison of the static CRS and of geographic and derived geographic
\* CRS the client makes over a datum or a datum ensemble
InitEquivalence == InitWith(MaxObjEquivalence, {EPSG_4326, EPSG_4978})

Criterions == {"STRICT", "EQUIVALENT"}

NextEquivalence ==
    \/ \E name \in Names, datum \in {"WGS84", NoDatum},
          ens \in GeodeticEnsembles \cup {NoDatum} :
          GeographicCRS_create(name, datum, ens, LatLong)
    \/ \E method \in Methods : Conversion_create(method)
    \/ \E name \in Names, base \in roots, conv \in roots :
          DerivedGeographicCRS_create(name, base, conv, LatLong)
    \/ \E a \in roots, b \in roots, criterion \in Criterions :
          IsEquivalentToCall(a, b, criterion)

SpecEquivalence == InitEquivalence /\ [][NextEquivalence]_vars

\* PROJ string export, in the pipeline convention, of compound CRS the
\* client makes of the static CRS and of vertical and temporal CRS
InitCompoundPROJ == InitWith(MaxObjCompoundPROJ, {EPSG_4326})

NextCompoundPROJ ==
    \/ \E name \in Names :
          VerticalCRS_create(name, "NAVD88", NoDatum, GravityRelatedHeight)
    \/ \E name \in Names : TemporalCRS_create(name, "Epoch", TemporalCS)
    \/ \E name \in Names, components \in ComponentLists :
          CompoundCRS_create(name, components)
    \/ \E x \in roots : ExportToPROJStringCall(x, "PROJ_5")

SpecCompoundPROJ == InitCompoundPROJ /\ [][NextCompoundPROJ]_vars

\* PROJ string export of ProjectedCRS the client makes over EPSG:4326 with
\* coordinate systems of every axis order
InitAxis == InitWith(MaxObjAxis, {EPSG_4326})

AxisDirections == {"east", "west", "north", "south", "northEast"}
AxisNames == {<<"Easting", "Northing">>, <<"Northing", "Easting">>}

NextAxis ==
    \/ \E method \in {"utm", "krovak"} : Conversion_create(method)
    \/ \E name \in Names, conv \in roots, names \in AxisNames,
          dir0 \in AxisDirections, dir1 \in AxisDirections,
          unit \in {"metre", "foot"} :
          ProjectedCRS_create(name, EPSG_4326, conv,
              CartesianCS_create(names[1], dir0, names[2], dir1, unit))
    \/ \E x \in roots, convention \in PROJConventions :
          ExportToPROJStringCall(x, convention)

SpecAxis == InitAxis /\ [][NextAxis]_vars

\* ------------------------------------------------------------------------
\* Derived CRS and their deriving conversion

Projected(h, al) == {p \in al : h[p].kind = "ProjectedCRS"}

\* C1: for every ProjectedCRS P, in every state reached by
\* ProjectedCRS::create, shallowClone, stripVerticalComponent and
\* derivingConversion, the target CRS of P's deriving conversion is P and
\* its source CRS is P's base CRS
C1_DerivingConversionLinksOwner ==
    \A p \in Projected(heap, alive) :
        /\ TargetCRS(heap, alive, heap[p].conv) = p
        /\ SourceCRS(heap, alive, heap[p].conv) = heap[p].base

\* C2: after C = P.shallowClone() on a ProjectedCRS P, the deriving
\* conversion of C is an object of its own that targets C, and the deriving
\* conversion of P is the object it was and targets what it targeted: it
\* still targets P when it did
C2_ShallowCloneReassignsSelfReference ==
    [][(last'.op = "shallowClone" /\ nextId' # nextId
           /\ heap[last'.self].kind = "ProjectedCRS")
       => LET P == last'.self
              C == last'.ret
          IN  /\ heap'[C].kind = "ProjectedCRS"
              /\ heap'[C].conv # heap'[P].conv
              /\ heap'[C].conv \notin alive
              /\ TargetCRS(heap', alive', heap'[C].conv) = C
              /\ SourceCRS(heap', alive', heap'[C].conv) = heap'[C].base
              /\ heap'[P] = heap[P]
              /\ heap'[heap[P].conv] = heap[heap[P].conv]
              /\ (TargetCRS(heap, alive, heap[P].conv) = P
                     => TargetCRS(heap', alive', heap'[P].conv) = P)]_vars

\* a ProjectedCRS that is linked to its own conversion was cloned
C2_Witness ==
    /\ last.op = "shallowClone"
    /\ heap[last.self].kind = "ProjectedCRS"
    /\ TargetCRS(heap, alive, heap[last.ret].conv) = last.ret
    /\ TargetCRS(heap, alive, heap[last.self].conv) = last.self
    /\ heap[last.ret].conv # heap[last.self].conv

\* C3: passing an already constructed Conversion to ProjectedCRS::create
\* does not change the source CRS or the target CRS of that Conversion, as
\* seen through the reference the caller keeps
C3_CreateLeavesConversionUnchanged ==
    [][(last'.op = "ProjectedCRS::create" /\ nextId' # nextId)
       => LET conv == last'.arg
          IN  /\ SourceCRS(heap', alive', conv) = SourceCRS(heap, alive, conv)
              /\ TargetCRS(heap', alive', conv) = TargetCRS(heap, alive, conv)]_vars

\* ------------------------------------------------------------------------
\* Single CRS: datum or datum ensemble

SingleCRSFactories ==
    {"GeographicCRS::create", "GeodeticCRS::create", "VerticalCRS::create"}

\* C4: every single CRS has exactly one of datum and datum ensemble, and a
\* single-CRS factory given neither or both throws, returns no object and
\* constructs none
C4_ExactlyOneOfDatumAndEnsemble ==
    /\ [](\A o \in alive :
             heap[o].kind \in SingleKinds
                 => (heap[o].datum # NoDatum) # (heap[o].ensemble # NoDatum))
    /\ [][(last'.op \in SingleCRSFactories
              /\ (last'.datum # NoDatum) = (last'.ens # NoDatum))
          => /\ last'.threw
             /\ last'.ret = Null
             /\ heap' = heap /\ alive' = alive /\ roots' = roots
             /\ nextId' = nextId]_vars

\* a factory was given both a datum and a datum ensemble, and threw
C4_Witness ==
    /\ last.op = "GeographicCRS::create"
    /\ last.datum # NoDatum
    /\ last.ens # NoDatum
    /\ last.threw
    /\ \E o \in alive \ Statics : heap[o].kind = "GeographicCRS"

\* ------------------------------------------------------------------------
\* The canonical BoundCRS link

\* C5: the canonical BoundCRS pointer of an object is set at most once, by
\* baseCRSWithCanonicalBoundCRS alone, and no call, a repeated
\* baseCRSWithCanonicalBoundCRS included, changes the pointer of an object
\* that exists (a shallow clone is born with a copy of the pointer)
C5_CanonicalBoundCRSInstalledOnce ==
    /\ [](\A o \in Ids : canonWrites[o] <= 1)
    /\ [][/\ \A o \in alive \cap alive' :
                heap'[o].canonical = heap[o].canonical
          /\ canonWrites' # canonWrites
                => last'.op = "baseCRSWithCanonicalBoundCRS"]_vars

\* baseCRSWithCanonicalBoundCRS was called again on a BoundCRS over the same
\* base, and the object the earlier call returned kept its pointer
C5_Witness ==
    /\ last.op = "baseCRSWithCanonicalBoundCRS"
    /\ \E o \in alive \ {last.ret} :
          /\ canonWrites[o] = 1
          /\ heap[o].canonical # Null
          /\ heap[o].canonical # heap[last.ret].canonical
          /\ heap[heap[o].canonical].base = heap[last.self].base
          /\ heap[heap[o].canonical].transf = heap[last.self].transf

BoundCRSFactories ==
    {"BoundCRS::create", "BoundCRS::createFromTOWGS84",
     "BoundCRS::createFromNadgrids"}

\* C6: building a BoundCRS over a base CRS and calling
\* baseCRSWithCanonicalBoundCRS leave the base CRS object as it was, its
\* canonical BoundCRS pointer included; baseCRS() is that very object; only
\* the fresh shallow clone that baseCRSWithCanonicalBoundCRS returns gets a
\* canonical BoundCRS, which is equivalent to the BoundCRS it was obtained
\* from
C6_BaseCRSLeftUnmodified ==
    [][/\ (last'.op \in BoundCRSFactories /\ nextId' # nextId)
          => LET base == last'.self
                 b == last'.ret
             IN  /\ heap'[base] = heap[base]
                 /\ heap'[b].kind = "BoundCRS"
                 /\ heap'[b].base = base
                 /\ \A o \in alive : heap'[o].canonical = heap[o].canonical
       /\ (last'.op = "baseCRSWithCanonicalBoundCRS" /\ nextId' # nextId)
          => LET b == last'.self
                 base == heap[b].base
                 clone == last'.ret
             IN  /\ heap'[base] = heap[base]
                 /\ heap'[b] = heap[b]
                 /\ heap'[b].base = base
                 /\ clone \notin alive
                 /\ heap'[clone].canonical # Null
                 /\ IsEquivalentTo(heap', heap'[clone].canonical, b, "STRICT")
                 /\ IsEquivalentTo(heap', clone, base, "STRICT")
                 /\ \A o \in alive : heap'[o].canonical = heap[o].canonical]_vars

\* baseCRSWithCanonicalBoundCRS returned the clone of a ProjectedCRS,
\* carrying a canonical BoundCRS, while the ProjectedCRS the BoundCRS was
\* built over carries none
C6_Witness ==
    /\ last.op = "baseCRSWithCanonicalBoundCRS"
    /\ heap[last.ret].canonical # Null
    /\ heap[heap[last.self].base].kind = "ProjectedCRS"
    /\ heap[heap[last.self].base].canonical = Null
    /\ heap[last.self].base # last.ret

\* ------------------------------------------------------------------------
\* Ownership

\* the objects reached from the objects `from` through owning pointers
RECURSIVE OwnedFrom(_, _)
OwnedFrom(h, from) ==
    LET more == from \cup UNION {StrongRefs(h, o) : o \in from}
    IN  IF more = from THEN from ELSE OwnedFrom(h, more)

\* C7: no object owns itself through a chain of owning pointers, and an
\* object lives only as long as a reference of the client (or a static
\* singleton) reaches it through owning pointers: once the client has
\* dropped every reference, every base CRS is destroyed
C7_NoOwnershipCycle ==
    /\ \A o \in alive : o \notin OwnedFrom(heap, StrongRefs(heap, o))
    /\ alive = OwnedFrom(heap, roots \cup Statics)
    /\ roots \subseteq Statics => alive = Statics

\* the client dropped its last reference after a canonical BoundCRS was
\* installed on the clone of a base CRS, and only the singletons remain
C7_Witness ==
    /\ last.op = "drop"
    /\ roots \subseteq Statics
    /\ alive = Statics
    /\ \E o \in Ids : canonWrites[o] = 1

\* ------------------------------------------------------------------------
\* derivingConversion

\* C8: derivingConversion() returns a fresh Conversion, distinct from the
\* internal conversion of the CRS and from every object returned before,
\* whose target CRS is the CRS it was obtained from
C8_DerivingConversionReturnsClone ==
    last.op = "derivingConversion"
        => /\ heap[last.ret].kind = "Conversion"
           /\ last.ret # heap[last.self].conv
           /\ last.ret = nextId - 1
           /\ TargetCRS(heap, alive, last.ret) = last.self

\* ------------------------------------------------------------------------
\* createBoundCRSToWGS84IfPossible

ToWGS84 == "createBoundCRSToWGS84IfPossible"

\* the CRS x carries a canonical BoundCRS whose hub is EPSG:4326
CarriesCanonicalToWGS84(h, x) ==
    /\ h[x].canonical # Null
    /\ IsEquivalentTo(h, h[h[x].canonical].hub, EPSG_4326, "EQUIVALENT")

\* the geographic CRS extracted from x is equivalent to EPSG:4326
GeographicIsWGS84(h, x) ==
    /\ ExtractGeographicCRS(h, x) # Null
    /\ IsEquivalentTo(h, ExtractGeographicCRS(h, x), EPSG_4326, "EQUIVALENT")

C10_Idempotent ==
    \A x \in alive, d \in DbChoices :
        IsCRS(heap, x)
        => LET out == ToWGS84Outcome(heap, x, d)
               ret == ToWGS84Ret(out, nextId)
               after == ToWGS84Heap(heap, x, out, nextId)
           IN  (out.ret = Null => nextId + 1 <= cap)
               => ToWGS84Ret(ToWGS84Outcome(after, ret, d), nextId + 2) = ret

\* the method built a new BoundCRS to EPSG:4326 over the CRS it was called on
C10_Witness ==
    /\ last.op = ToWGS84
    /\ last.ret # last.self
    /\ last.ret = nextId - 1
    /\ heap[last.ret].kind = "BoundCRS"
    /\ heap[last.ret].base = last.self
    /\ heap[last.ret].hub = EPSG_4326

\* the method on x gets as far as creating the authority factory and
\* asking for the candidate operations
NeedsQuery(h, x) ==
    LET geodCRS == IF h[x].kind \in GeodeticKinds THEN x ELSE Null
        geogCRS == ExtractGeographicCRS(h, x)
    IN  /\ ~HubIsWGS84(h, StartingBoundCRS(h, x))
        /\ \/ geodCRS # Null /\ geogCRS = Null
           \/ /\ geogCRS # Null
              /\ ~IsEquivalentTo(h, geogCRS, EPSG_4326, "EQUIVALENT")

\* C11: when the database context fails (creating the authority factory or
\* computing the candidate operations raises an error),
\* createBoundCRSToWGS84IfPossible propagates no error, creates nothing,
\* changes no object and returns the object it was called on
C11_DatabaseFailureNotFatal ==
    [][(last'.op = ToWGS84 /\ last'.dbFails /\ NeedsQuery(heap, last'.self))
       => /\ ~last'.threw
          /\ last'.ret = last'.self
          /\ heap' = heap
          /\ alive' = alive
          /\ nextId' = nextId]_vars

\* the method was called with a failing database context on a CRS it has to
\* query the operations for, and returned that CRS
C11_Witness ==
    /\ last.op = ToWGS84
    /\ last.dbFails
    /\ NeedsQuery(heap, last.self)
    /\ heap[last.self].kind = "ProjectedCRS"
    /\ last.ret = last.self
    /\ ~last.threw

\* the transformations getTOWGS84Parameters succeeds for
HelmertCandidates(ops) ==
    {i \in DOMAIN ops : ops[i].type = "Transformation" /\ ops[i].towgs84}

First(idx) == CHOOSE i \in idx : \A j \in idx : i <= j

\* C12 as stated: when the method queries the candidate operations of a
\* database context that answers, it builds a BoundCRS over self with the
\* first candidate, in the order returned, for which getTOWGS84Parameters
\* succeeds, and returns self when there is no such candidate
C12_FirstHelmertCandidate ==
    \A x \in alive, d \in DbChoices :
        (IsCRS(heap, x) /\ NeedsQuery(heap, x) /\ ~d.throws)
        => LET out == ToWGS84Outcome(heap, x, d)
               idx == HelmertCandidates(d.ops)
           IN  IF idx = {} THEN out.ret = x
               ELSE out.ret = Null /\ out.transf = d.ops[First(idx)].name

\* the transformation a candidate operation offers, "" when it offers
\* none: the operation itself when it is a Transformation, and the second
\* step of a concatenated operation of two steps whose first step is a
\* longitude rotation, or a conversion while self is a derived CRS
Offered(op, selfIsDerived) ==
    IF op.type = "Transformation"
    THEN IF op.towgs84 THEN op.name ELSE ""
    ELSE IF /\ op.type = "ConcatenatedOperation"
            /\ Len(op.sub) = 2
            /\ \/ op.sub[1].type = "Transformation" /\ op.sub[1].rot
               \/ op.sub[1].type = "Conversion" /\ selfIsDerived
            /\ op.sub[2].type = "Transformation"
            /\ op.sub[2].towgs84
    THEN op.sub[2].name
    ELSE ""

\* C12 amended: the candidates are scanned in the order returned and the
\* BoundCRS over self, to the hub the operations were asked for, is built
\* with what the first usable candidate offers: a Transformation for which
\* getTOWGS84Parameters succeeds, or such a Transformation as the second
\* step of a two-step concatenated operation that starts with a longitude
\* rotation (or with a conversion, self being a derived CRS); every other
\* candidate is skipped, and self is returned when none is usable
C12_FirstUsableCandidate ==
    \A x \in alive, d \in DbChoices :
        (IsCRS(heap, x) /\ NeedsQuery(heap, x) /\ ~d.throws)
        => LET out == ToWGS84Outcome(heap, x, d)
               derived == heap[x].kind \in DerivedKinds
               idx == {i \in DOMAIN d.ops : Offered(d.ops[i], derived) # ""}
           IN  IF idx = {} THEN out.ret = x
               ELSE /\ out.ret = Null
                    /\ out.transf = Offered(d.ops[First(idx)], derived)
                    /\ out.hub = IF ExtractGeographicCRS(heap, x) = Null
                                 THEN EPSG_4978 ELSE EPSG_4326

\* the method skipped a grid transformation and built the BoundCRS over
\* self with the Helmert transformation that follows it
C12_Witness ==
    /\ last.op = ToWGS84
    /\ ~last.dbFails
    /\ last.ret = nextId - 1
    /\ heap[last.ret].kind = "BoundCRS"
    /\ heap[last.ret].base = last.self
    /\ heap[heap[last.ret].transf].name = "h2"

\* ------------------------------------------------------------------------
\* BoundCRS: hub and transformation

\* C13: for every BoundCRS made by BoundCRS::create, createFromTOWGS84,
\* createFromNadgrids or createBoundCRSToWGS84IfPossible, the target CRS of
\* its transformation is its hub CRS (the same object, or an equivalent
\* one)
C13_TransformationTargetsHub ==
    \A b \in alive :
        heap[b].kind = "BoundCRS"
        => LET target == TargetCRS(heap, alive, heap[b].transf)
           IN  \/ target = heap[b].hub
               \/ IsEquivalentTo(heap, target, heap[b].hub, "EQUIVALENT")

\* ------------------------------------------------------------------------
\* CompoundCRS

\* the components of the CompoundCRS k that are horizontal (geodetic,
\* geographic or projected, bound or not) and those that are vertical
Horizontal(h, k) ==
    {i \in DOMAIN h[k].components :
        LET c == h[k].components[i]
            s == IF h[c].kind = "BoundCRS" THEN h[c].base ELSE c
        IN  h[s].kind \in GeodeticKinds \cup {"ProjectedCRS"}}

Vertical(h, k) ==
    {i \in DOMAIN h[k].components :
        LET c == h[k].components[i]
            s == IF h[c].kind = "BoundCRS" THEN h[c].base ELSE c
        IN  h[s].kind = "VerticalCRS"}

\* C14: no CompoundCRS combines a horizontal CRS with more than one
\* vertical CRS or with a second horizontal CRS: CompoundCRS::create throws
\* for such a component list
C14_ComponentsCompatible ==
    \A k \in alive :
        heap[k].kind = "CompoundCRS"
        => ~(/\ Horizontal(heap, k) # {}
             /\ \/ Cardinality(Vertical(heap, k)) > 1
                \/ Cardinality(Horizontal(heap, k)) > 1)

\* the walk as the claim describes it: a GeographicCRS is its own result, a
\* ProjectedCRS gives its base CRS, a CompoundCRS the result of the first
\* component, in list order, that yields a GeographicCRS, a BoundCRS the
\* result for its base CRS, and there is no result otherwise
RECURSIVE FirstGeographicCRS(_, _)
FirstGeographicCRS(h, x) ==
    IF h[x].kind \in GeographicKinds THEN x
    ELSE IF h[x].kind = "ProjectedCRS"
    THEN IF h[h[x].base].kind \in GeographicKinds THEN h[x].base ELSE Null
    ELSE IF h[x].kind = "CompoundCRS"
    THEN LET found == {i \in DOMAIN h[x].components :
                          FirstGeographicCRS(h, h[x].components[i]) # Null}
         IN  IF found = {} THEN Null
             ELSE FirstGeographicCRS(h, h[x].components[First(found)])
    ELSE IF h[x].kind = "BoundCRS" THEN FirstGeographicCRS(h, h[x].base)
    ELSE Null

\* C15: extractGeographicCRS returns the CRS itself for a GeographicCRS,
\* the base CRS for a ProjectedCRS, for a CompoundCRS the result of the
\* first component that yields a GeographicCRS, for a BoundCRS the result
\* for its base CRS, and null when no GeographicCRS is found
C15_ExtractGeographicCRSWalk ==
    last.op = "extractGeographicCRS"
        => last.ret = FirstGeographicCRS(heap, last.self)

\* ------------------------------------------------------------------------
\* stripVerticalComponent

\* C16: stripVerticalComponent on a GeographicCRS or ProjectedCRS of three
\* axes returns a new CRS of the same kind, with the same name, the same
\* datum and ensemble, the same base CRS and an equivalent deriving
\* conversion, whose coordinate system is made of the first two axes in
\* their order; on every other CRS it returns the object it was called on
C16_StripVerticalComponent ==
    last.op = "stripVerticalComponent"
        => LET x == last.self
               r == last.ret
           IN  IF /\ heap[x].kind \in GeographicKinds \cup {"ProjectedCRS"}
                  /\ Len(heap[x].cs.axes) = 3
               THEN /\ r # x
                    /\ r = nextId - 1
                    /\ heap[r].kind = heap[x].kind
                    /\ heap[r].name = heap[x].name
                    /\ heap[r].datum = heap[x].datum
                    /\ heap[r].ensemble = heap[x].ensemble
                    /\ heap[r].cs.type = heap[x].cs.type
                    /\ heap[r].cs.axes = <<heap[x].cs.axes[1], heap[x].cs.axes[2]>>
                    /\ heap[r].base = heap[x].base
                    /\ heap[x].kind \in DerivedKinds
                          => Operation_isEquivalentTo(heap, heap[r].conv,
                                                      heap[x].conv, "STRICT")
               ELSE r = x

\* ------------------------------------------------------------------------
\* WKT1 export of a BoundCRS

Has(out, token) == \E i \in DOMAIN out : out[i] = token

WKT1Conventions == {"WKT1_GDAL", "WKT1_ESRI"}

\* the call just made is the WKT1 export of a BoundCRS over a single CRS
WKT1ExportOfBoundCRS ==
    /\ last.op = "exportToWKT"
    /\ heap[last.self].kind = "BoundCRS"
    /\ heap[heap[last.self].base].kind \in SingleKinds
    /\ last.formatter.convention \in WKT1Conventions

\* C17 (as stated): in WKT1 export a BoundCRS is emitted as its base CRS
\* with injected TOWGS84 when the hub CRS is equivalent to EPSG:4326 and the
\* transformation produces a 7-tuple; otherwise with the datum extension
\* when the transformation carries a nadgrids or geoidgrids file; otherwise
\* the export fails with a formatting error.
C17_BoundCRSToWKT1 ==
    WKT1ExportOfBoundCRS =>
        LET b == heap[last.self]
            out == last.formatter.out
        IN  IF IsEquivalentTo(heap, b.hub, EPSG_4326, "EQUIVALENT")
               /\ heap[b.transf].method = "helmert"
            THEN ~last.threw /\ Has(out, "TOWGS84")
            ELSE IF heap[b.transf].method \in {"ntv2", "geoid"}
            THEN ~last.threw /\ Has(out, "EXTENSION")
            ELSE last.threw

\* C17 (amended): the grid files are looked at first and count only when
\* the hub CRS is named "WGS 84" (a geoidgrids file only over a vertical
\* base CRS); without one the hub CRS must be a geodetic CRS named "WGS 84"
\* and the transformation must produce a 7-tuple, or the export fails; the
\* export fails when the export of the base CRS fails; TOWGS84 is injected
\* in the datum of a geodetic base CRS, and not in the ESRI dialect.
C17_BoundCRSToWKT1ByHubName ==
    WKT1ExportOfBoundCRS =>
        LET b == heap[last.self]
            out == last.formatter.out
            hubIsWGS84 == heap[b.hub].name = "WGS 84"
            method == heap[b.transf].method
            vertical == heap[b.base].kind = "VerticalCRS"
            vgrid == hubIsWGS84 /\ vertical /\ method = "geoid"
            hgrid == ~vgrid /\ hubIsWGS84 /\ method = "ntv2"
            towgs84 == /\ ~vgrid /\ ~hgrid /\ hubIsWGS84
                       /\ heap[b.hub].kind \in GeodeticKinds
                       /\ method = "helmert"
            baseThrows == /\ last.formatter.convention = "WKT1_ESRI"
                          /\ ~vertical
                          /\ Len(heap[b.base].cs.axes) # 2
        IN  /\ last.threw <=> (baseThrows \/ ~(vgrid \/ hgrid \/ towgs84))
            /\ ~last.threw =>
                  /\ Has(out, "TOWGS84") <=>
                        /\ towgs84 /\ ~vertical
                        /\ last.formatter.convention # "WKT1_ESRI"
                  /\ Has(out, "EXTENSION") <=> (vgrid \/ (hgrid /\ ~vertical))
                  /\ out[1] = (IF vertical THEN "VERT_CS"
                               ELSE IF heap[b.base].cs.type = "Cartesian"
                               THEN "GEOCCS" ELSE "GEOGCS")

\* a BoundCRS to the geocentric EPSG:4978 with a Helmert transformation has
\* been exported in WKT1 with TOWGS84
C17_Witness ==
    /\ WKT1ExportOfBoundCRS
    /\ heap[last.self].hub = EPSG_4978
    /\ heap[heap[last.self].transf].method = "helmert"
    /\ ~last.threw
    /\ Has(last.formatter.out, "TOWGS84")

\* ------------------------------------------------------------------------
\* Failing exports

\* C18: emission is all-or-nothing: when a WKT or PROJ string export fails,
\* the accumulated output of the formatter is the same as before the call
\* (the formatter of a call is fresh, so nothing has been written).
C18_AllOrNothing ==
    last.op \in {"exportToWKT", "exportToPROJString"} /\ last.threw
        => last.formatter.out = <<>>

\* C19: exporting a BoundCRS to a PROJ string in the pipeline (PROJ_5)
\* convention fails with a formatting error whatever its base CRS, hub and
\* transformation are: an export of a BoundCRS that succeeds is one in the
\* flat (PROJ_4) convention.
C19_BoundCRSPipelineFails ==
    last.op = "exportToPROJString" /\ heap[last.self].kind = "BoundCRS"
        => /\ last.formatter.convention = "PROJ_5" => last.threw
           /\ ~last.threw => last.formatter.convention = "PROJ_4"

\* a BoundCRS with a Helmert transformation to EPSG:4326, which the flat
\* convention exports, has been refused in the pipeline convention
C19_Witness ==
    /\ last.op = "exportToPROJString"
    /\ heap[last.self].kind = "BoundCRS"
    /\ heap[last.self].hub = EPSG_4326
    /\ heap[heap[last.self].transf].method = "helmert"
    /\ last.formatter.convention = "PROJ_5"
    /\ last.threw
    /\ ~ExportToPROJString(heap, last.self,
                           PROJStringFormatter_create("PROJ_4")).threw

\* the kinds that only WKT2 represents
WKT2OnlyKinds ==
    {"TemporalCRS", "ParametricCRS", "DerivedGeodeticCRS",
     "DerivedGeographicCRS", "DerivedVerticalCRS", "DerivedEngineeringCRS",
     "DerivedParametricCRS", "DerivedTemporalCRS"}

\* C20: a CRS kind the requested WKT dialect cannot represent is rejected
\* with a formatting error: the WKT1 export of a TemporalCRS, a
\* ParametricCRS or a derived geodetic, geographic, vertical, engineering,
\* parametric or temporal CRS throws, and the export of a
\* DerivedProjectedCRS throws for every dialect other than WKT2:2018.
C20_DialectRejectsKind ==
    last.op = "exportToWKT" =>
        /\ /\ heap[last.self].kind \in WKT2OnlyKinds
           /\ last.formatter.convention \in WKT1Conventions
           => last.threw
        /\ /\ heap[last.self].kind = "DerivedProjectedCRS"
           /\ last.formatter.convention
                  \notin {"WKT2_2018", "WKT2_2018_SIMPLIFIED"}
           => last.threw

\* a DerivedProjectedCRS has been refused in WKT2:2015 and is exported in
\* WKT2:2018
C20_Witness ==
    /\ last.op = "exportToWKT"
    /\ heap[last.self].kind = "DerivedProjectedCRS"
    /\ last.formatter.convention = "WKT2_2015"
    /\ last.threw
    /\ ~ExportToWKT(heap, last.self, WKTFormatter_create("WKT2_2018")).threw

\* ------------------------------------------------------------------------
\* Equivalence of single CRS

\* C21: two single CRS are reported equivalent only if they are of the same
\* kind, their datums, or for CRS over an ensemble their datum ensembles,
\* are equivalent, and their coordinate systems are equivalent.
C21_EquivalentSingleCRS ==
    /\ last.op = "isEquivalentTo"
    /\ heap[last.self].kind \in SingleKinds
    /\ heap[last.arg].kind \in SingleKinds
    /\ last.equivalent
    => LET a == heap[last.self]
           b == heap[last.arg]
       IN  /\ a.kind = b.kind
           /\ IF a.datum # NoDatum
              THEN b.datum # NoDatum /\ Datum_isEquivalentTo(a.datum, b.datum)
              ELSE b.datum = NoDatum /\ a.ensemble = b.ensemble
           /\ CS_isEquivalentTo(a.cs, b.cs)

\* ------------------------------------------------------------------------
\* PROJ string export of a CompoundCRS

\* the export of the component i of the compound CRS k on its own, with a
\* fresh formatter of the convention of the call just made
ComponentExport(k, i) ==
    ExportToPROJString(heap, heap[k].components[i],
                       PROJStringFormatter_create(last.formatter.convention))

\* the outputs of the components of k from i on that are in `which`, one
\* after the other
RECURSIVE ConcatenatedOutput(_, _, _)
ConcatenatedOutput(k, i, which) ==
    IF i > Len(heap[k].components) THEN <<>>
    ELSE (IF i \in which THEN ComponentExport(k, i).f.out ELSE <<>>)
             \o ConcatenatedOutput(k, i + 1, which)

PROJExportOfCompoundCRS ==
    last.op = "exportToPROJString" /\ heap[last.self].kind = "CompoundCRS"

PipelineExportOfProjectedCRS ==
    /\ last.op = "exportToPROJString"
    /\ heap[last.self].kind = "ProjectedCRS"
    /\ last.formatter.convention = "PROJ_5"

\* the output ends with an axisswap step of that order
EndsWithAxisSwap(out, o0, o1) ==
    /\ Len(out) >= 4
    /\ SubSeq(out, Len(out) - 3, Len(out)) = <<"axisswap", "order", o0, o1>>

KindOfClass(class) ==
    CASE class = "Length" -> "LINEAR"
      [] class = "Angle" -> "ANGULAR"
      [] class = "Scale" -> "SCALE"
      [] OTHER -> "UNKNOWN"

C24_UnitOfMatchingKind ==
    \A m \in measures :
        m.class \in {"Length", "Angle", "Scale"}
            => UnitType(m.unit) = KindOfClass(m.class)

\* ------------------------------------------------------------------------
\* C25: every existing Ellipsoid has a semi-major axis > 0, an inverse
\* flattening >= 0 and a semi-minor axis <= its semi-major axis (the
\* factories return no object otherwise)
C25_ValidEllipsoid ==
    \A e \in ellipsoids :
        /\ GetSIValue(e.semiMajorAxis) > 0
        /\ e.inverseFlattening # NoValue
               => GetSIValue(e.inverseFlattening) >= 0
        /\ e.semiMinorAxis # NoValue
               => GetSIValue(e.semiMinorAxis) <= GetSIValue(e.semiMajorAxis)

\* ------------------------------------------------------------------------
\* C26: the core lock gives mutual exclusion: never are two different
\* threads both past a return from pj_acquire_lock() without having called
\* the matching pj_release_lock()
C26_MutualExclusion ==
    \A t1 \in Threads, t2 \in Threads :
        thread[t1].depth > 0 /\ thread[t2].depth > 0 => t1 = t2

\* ------------------------------------------------------------------------
\* C27: pj_core_lock is initialised exactly once (never a second time), and
\* never while a thread holds it or waits on it
HoldsOrWaits(t) ==
    pj_core_lock.owner = t \/ thread[t].pc = "lock_core"

C27_CoreLockInitialisedOnce ==
    /\ [](pj_core_lock.inits <= 1)
    /\ [][pj_core_lock'.inits # pj_core_lock.inits
              => ~ \E t \in Threads : HoldsOrWaits(t)]_vars

\* ------------------------------------------------------------------------
\* C28: the export of a BoundCRS to WKT1 or to a PROJ_4 string leaves the
\* TOWGS84 setting and the horizontal and vertical datum extension settings
\* of the formatter as they were before the call (those of a formatter just
\* created), whether the call returns or throws
Settings(f) == <<f.towgs84, f.hExt, f.vExt>>

C28_FormatterSettingsRestored ==
    /\ last.op = "exportToWKT"
    /\ heap[last.self].kind = "BoundCRS"
    /\ last.formatter.convention \in WKT1Conventions
    => Settings(last.formatter)
           = Settings(WKTFormatter_create(last.formatter.convention))

\* ------------------------------------------------------------------------
\* C29: after pj_cleanup_lock(), every lock that was lazily created has
\* been destroyed and its pointer is NULL
C29_AllLocksDestroyed ==
    pj_lock_call = "pj_cleanup_lock"
        => \A l \in Win32Locks : ~pj_lock[l].created

\* ------------------------------------------------------------------------
\* C30: the cache is transparent: ComponentEx::evaluateAt(dt) returns the
\* value that component.timeFunction()->evaluateAt(dt) returns for that dt,
\* on every call
C30_CacheTransparent ==
    evaluated # NoEvaluation
        => evaluated.ret =
               TimeFunction_evaluateAt(
                   mComponents[evaluated.component].timeFunction,
                   evaluated.dt)

=============================================================================
